---- MODULE Spec2Model ----
(***************************************************************************)
(* A model of pipewire-rs: the libspa plugin / handle lifetime code        *)
(* (libspa/src/lib.rs), the hook-list unlinking code (libspa/src/hook.rs,  *)
(* libspa/src/list.rs), the listener builders of the pipewire crate        *)
(* (core_.rs, registry.rs, proxy.rs, node.rs, port.rs, link.rs) and the    *)
(* proxy ownership code (proxy.rs, registry.rs), the SpaResult encoding   *)
(* (libspa/src/lib.rs) and the ForeignDict iterators (libspa/src/dict.rs). *)
(*                                                                         *)
(* Ten specifications share the variables:                                 *)
(*   SpecHandle    Plugin / Factory::instantiate / Handle::clear / drop    *)
(*   SpecListener  several listeners on one hook list, register / drop,    *)
(*                 with closures that call back into the API               *)
(*   SpecBridge    a listener of every kind and callback subset, and the   *)
(*                 native delivery of events through its event table, the  *)
(*                 closures running inside the emission                    *)
(*   SpecProxy     Registry::bind / upcast / from_proxy_unchecked /        *)
(*                 removed events / drops                                  *)
(*   SpecResult    SpaResult constructors and methods on sample i32 values *)
(*   SpecDict      ForeignDict iterators and queries on sample dicts       *)
(*   SpecTarget    listeners of a target object that can be dropped        *)
(*   SpecType      ObjectType::from_str / to_str / client_version          *)
(*   SpecIface     Handle::interface on sample native results              *)
(*   SpecFactory   Plugin::factories / FactoryIter::next / Plugin::factory *)
(***************************************************************************)
EXTENDS Integers, Sequences, FiniteSets, TLC

VARIABLES
    plugin,     \* "open" | "dropped": the Plugin value (lib.rs:35)
    libRc,      \* strong count of the Rc<Library> (lib.rs:39, lib.rs:318)
    libLoaded,  \* TRUE while the Library value exists (the shared object is dlopen'ed)
    hnd,        \* per handle id: the Handle value and the native calls made for its block
    crashed,    \* the process died in a call through a dangling function pointer
    tkind,      \* kind of the object the listeners are registered on
    mem,        \* hook-list memory: list head, hook nodes, allocated addresses, ub flag
    tables,     \* address -> native event table (slot -> trampoline or NULL)
    bundles,    \* address -> callback bundle (the set of supplied callbacks)
    lst,        \* per listener id: the Listener value (its three boxes) and its history
    brk,        \* next fresh heap address
    delivered,  \* native invocations of populated event slots, in order
    invoked,    \* closure invocations, in order
    skipped,    \* number of (hook, event) pairs the native dispatcher skipped on a NULL slot
    panicked,   \* a trampoline panicked (unwrap / expect failed)
    proxies,    \* per proxy id: owner of the native pw_proxy and the destroy calls made
    bindResult, \* result of the last Registry::bind
    overflow_checks, \* the build has overflow checks (debug profile)
    sres,       \* the SpaResult last constructed, or the panic of its constructor
    sout,       \* what the last method called on sres returned
    dict,       \* the foreign spa_dict: flags, n_items, items pointer, backing array
    it,         \* the dict iterator in use: its kind and the CIter inside it
    yielded,    \* what the iterator yielded so far, in order
    nones,      \* how many times the iterator returned None
    hint,       \* result of the last size_hint on the iterator
    dres,       \* result of the last len / is_empty / flags / get on the dict
    ty,         \* a type-name string, the ObjectType made of it and what it gives back
    ifc,        \* the last Handle::interface call: its inputs and its outcome
    fac         \* the plugin's factory table, the FactoryIter in use and its history

hvars == <<plugin, libRc, libLoaded, hnd, crashed>>
lvars == <<tkind, mem, tables, bundles, lst, brk, delivered, invoked, skipped, panicked>>
pvars == <<proxies, bindResult>>
rvars == <<overflow_checks, sres, sout>>
dvars == <<dict, it, yielded, nones, hint, dres>>
qvars == <<ty, ifc, fac>>
vars == <<hvars, lvars, pvars, rvars, dvars, qvars>>

NULL == "NULL"

----------------------------------------------------------------------------
(* Bounds *)
MaxHandles == 2
MaxListeners == 3
MaxEvents == 2
MaxProxies == 2
MaxItems == 3
MaxNones == 2
MaxFactories == 2
MaxEnums == 2

----------------------------------------------------------------------------
(* 32-bit integer helpers *)

Pow2(n) == 2 ^ n

\* i32 values are kept as integers in -2^31 .. 2^31-1; the bits of one are
\* its sign bit and the 31 low bits of its two's complement pattern
I32_MAX == 2147483647
Low31(x) == IF x >= 0 THEN x ELSE (x + I32_MAX) + 1

RECURSIVE BitAndN(_, _, _)
BitAndN(a, b, n) ==
    IF n = 0 THEN 0
    ELSE (a % 2) * (b % 2) + 2 * BitAndN(a \div 2, b \div 2, n - 1)

\* a & b
BitAnd32(a, b) ==
    LET low == BitAndN(Low31(a), Low31(b), 31)
    IN  IF a < 0 /\ b < 0 THEN (low - I32_MAX) - 1 ELSE low

\* a | b, from a + b = (a | b) + (a & b); used where the sum does not overflow
BitOr32(a, b) == (a + b) - BitAnd32(a, b)

I32_MIN == (-I32_MAX) - 1

\* -x on i32: for i32::MIN the negation overflows, which panics in a build
\* with overflow checks and wraps to i32::MIN in one without
neg(x) ==
    IF x # I32_MIN THEN [panic |-> FALSE, val |-> -x]
    ELSE IF overflow_checks THEN [panic |-> TRUE, val |-> 0]
    ELSE [panic |-> FALSE, val |-> I32_MIN]

\* !a
BitNot32(a) == (-1) - a

----------------------------------------------------------------------------
(* SpaResult, libspa/src/lib.rs:433-529 *)

SPA_ASYNC_BIT == Pow2(30)
SPA_VAL_MASK == SPA_ASYNC_BIT - 1

is_ok(r) == BitAnd32(r, BitNot32(SPA_VAL_MASK)) = 0

\* faulty variant of is_async: the sign bit is not looked at
is_async_unsigned(r) == BitAnd32(r, SPA_ASYNC_BIT) = SPA_ASYNC_BIT

is_async(r) == BitAnd32(r, BitNot32(SPA_VAL_MASK)) = SPA_ASYNC_BIT
is_err(r) == r < 0

\* io::Result<i32>: tag "ok" with the value, tag "err" with the os error code,
\* tag "panic" when the function panics instead of returning
into_sync_result(r) ==
    IF is_async(r) THEN [tag |-> "panic", val |-> 0]
    ELSE IF r >= 0 THEN [tag |-> "ok", val |-> r]
    ELSE IF neg(r).panic THEN [tag |-> "overflow", val |-> 0]
    ELSE [tag |-> "err", val |-> neg(r).val]

\* SpaResult::into_async_result (lib.rs:519-528)
into_async_result(r) ==
    IF is_ok(r) THEN [tag |-> "panic", val |-> 0]
    ELSE IF r >= 0 THEN [tag |-> "ok", val |-> BitAnd32(r, SPA_VAL_MASK)]
    ELSE IF neg(r).panic THEN [tag |-> "overflow", val |-> 0]
    ELSE [tag |-> "err", val |-> neg(r).val]

\* a constructed SpaResult, or the panic of the constructor
Value(raw) == [tag |-> "value", raw |-> raw]
NoValue == [tag |-> "panic", raw |-> 0]

from_raw(res) == Value(res)
into_raw(r) == r

new_ok(val) ==
    IF BitAnd32(val, BitNot32(SPA_VAL_MASK)) # 0 THEN NoValue ELSE Value(val)

\* faulty variant of new_async: the async bit is not set
new_async_unflagged(seq) ==
    IF BitAnd32(seq, BitNot32(SPA_VAL_MASK)) # 0 THEN NoValue ELSE Value(seq)

new_async(seq) ==
    IF BitAnd32(seq, BitNot32(SPA_VAL_MASK)) # 0 THEN NoValue
    ELSE Value(BitOr32(seq, SPA_ASYNC_BIT))

\* faulty variant of new_err: zero is let through
new_err_zero(code) == IF code < 0 THEN NoValue ELSE Value(-code)

\* code > 0, so -code does not overflow
new_err(code) == IF code <= 0 THEN NoValue ELSE Value(-code)

unwrap_ok(r) ==
    IF BitAnd32(r, BitNot32(SPA_VAL_MASK)) # 0 THEN [tag |-> "panic", val |-> 0]
    ELSE [tag |-> "ok", val |-> r]

unwrap_async(r) ==
    IF BitAnd32(r, BitNot32(SPA_VAL_MASK)) # SPA_ASYNC_BIT
    THEN [tag |-> "panic", val |-> 0]
    ELSE [tag |-> "ok", val |-> BitAnd32(r, SPA_VAL_MASK)]

unwrap_error(r) ==
    IF r >= 0 THEN [tag |-> "panic", val |-> 0]
    ELSE IF neg(r).panic THEN [tag |-> "overflow", val |-> 0]
    ELSE [tag |-> "err", val |-> neg(r).val]

\* i32 inputs: the ends of the range, both sides of bit 30 and of zero
I32s ==
    {I32_MIN, I32_MIN + 1, (-SPA_ASYNC_BIT) - 1, -SPA_ASYNC_BIT, 1 - SPA_ASYNC_BIT,
     -12, -1, 0, 1, 12, SPA_VAL_MASK - 1, SPA_VAL_MASK, SPA_ASYNC_BIT,
     SPA_ASYNC_BIT + 1, SPA_ASYNC_BIT + 12, I32_MAX - 1, I32_MAX}

NoRes == [ctor |-> NULL, arg |-> 0, tag |-> "none", raw |-> 0]
NoOut == [op |-> NULL, tag |-> "none", val |-> 0]

InitResult ==
    /\ overflow_checks = TRUE
    /\ sres = NoRes
    /\ sout = NoOut

Construct(ctor, arg, v) ==
    /\ sres' = [ctor |-> ctor, arg |-> arg, tag |-> v.tag, raw |-> v.raw]
    /\ sout' = NoOut
    /\ UNCHANGED overflow_checks

NewOk(val) == Construct("new_ok", val, new_ok(val))
NewAsync(seq) == Construct("new_async", seq, new_async(seq))
NewErr(code) == Construct("new_err", code, new_err(code))
FromRaw(res) == Construct("from_raw", res, from_raw(res))

Method(op, out) ==
    /\ sres.tag = "value"
    /\ sout' = [op |-> op, tag |-> out.tag, val |-> out.val]
    /\ UNCHANGED <<overflow_checks, sres>>

IntoRaw == Method("into_raw", [tag |-> "ok", val |-> into_raw(sres.raw)])
UnwrapOk == Method("unwrap_ok", unwrap_ok(sres.raw))
UnwrapAsync == Method("unwrap_async", unwrap_async(sres.raw))
UnwrapError == Method("unwrap_error", unwrap_error(sres.raw))
IntoSyncResult == Method("into_sync_result", into_sync_result(sres.raw))
IntoAsyncResult == Method("into_async_result", into_async_result(sres.raw))

----------------------------------------------------------------------------
(* Plugin, Factory, Handle: libspa/src/lib.rs:34-400 *)

\* sizes the factory's get_size entry point may report
Sizes == {0, 16}
\* raw values the native init / clear entry points may return:
\* success, a positive sync value, -ENOMEM, an async sequence number, and
\* the least i32
NativeRets == {0, 1, -12, SPA_ASYNC_BIT + 1, I32_MIN}

HandleIds == 1 .. MaxHandles

\* st: where the handle is in its life; size: RawHandle.size; log: the
\* native and allocator calls made for its block; init: what the native init
\* returned when instantiate failed; raw: what the native clear returned;
\* ret, code: what Handle::clear or instantiate gave back (the io::Result,
\* or "panic")
NoHandle ==
    [st |-> "none", size |-> 0, log |-> <<>>, ret |-> NULL, init |-> 0, raw |-> 0,
     code |-> 0]

\* one native or allocator call made for a handle's block
Call(op, size) == [op |-> op, size |-> size, lib |-> libLoaded]
CallL(op, size, loaded) == [op |-> op, size |-> size, lib |-> loaded]

\* dropping one strong reference to the Rc<Library>: the Library is closed
\* when the count reaches zero
RcDrop(rc) == rc - 1
LoadedAfterDrop(rc, loaded) == IF rc - 1 = 0 THEN FALSE ELSE loaded

InitHandle ==
    /\ plugin = "open"
    /\ libRc = 1
    /\ libLoaded = TRUE
    /\ hnd = [h \in HandleIds |-> NoHandle]
    /\ crashed = FALSE

\* Factory::instantiate (lib.rs:219-244). s1 is what get_size reports to
\* layout(), s2 what it reports when RawHandle.size is set, ret is what the
\* native init returns.
\* A zero-size request is outside the contract of alloc_zeroed (undefined
\* behaviour): the allocator gives back some block or a null pointer, and
\* `null` says which. instantiate does not look at the pointer; the native
\* init writes through it, and the process dies there when it is null.
Instantiate(h, s1, s2, ret, null_block) ==
    /\ ~crashed
    /\ plugin = "open"
    /\ hnd[h].st = "none"
    /\ null_block => s1 = 0
    /\ LET res == into_sync_result(ret)
           pre == <<Call("alloc", s1), Call("init", s1)>>
           new == [NoHandle EXCEPT !.log = pre]
           failed == [new EXCEPT !.st = "failed", !.size = s1, !.ret = "panic",
                                 !.init = ret]
       IN  CASE null_block ->
                  /\ hnd' = [hnd EXCEPT ![h] = [new EXCEPT !.st = "faulted"]]
                  /\ libRc' = libRc
                  /\ crashed' = TRUE
            [] ~null_block /\ res.tag \in {"panic", "overflow"} ->
                  \* into_sync_result panics: the block is neither torn down nor released
                  /\ hnd' = [hnd EXCEPT ![h] = failed]
                  /\ libRc' = libRc
                  /\ crashed' = crashed
            [] ~null_block /\ res.tag = "err" ->
                  /\ hnd' = [hnd EXCEPT ![h] =
                                [failed EXCEPT !.code = res.val,
                                               !.log = pre \o <<Call("dealloc", s1)>>]]
                  /\ libRc' = libRc
                  /\ crashed' = crashed
            [] OTHER ->
                  /\ hnd' = [hnd EXCEPT ![h] = [new EXCEPT !.st = "live", !.size = s2]]
                  /\ libRc' = libRc + 1
                  /\ crashed' = crashed
    /\ UNCHANGED <<plugin, libLoaded>>

\* faulty variant of RawHandle::clear: without mem::forget(self) the value is
\* dropped when the function returns and Drop tears the block down again
RawHandleClear_NoForget(hv, ret, loaded) ==
    [hv EXCEPT !.log = @ \o <<CallL("clear", hv.size, loaded),
                              CallL("dealloc", hv.size, loaded),
                              CallL("clear", hv.size, loaded),
                              CallL("dealloc", hv.size, loaded)>>,
               !.st = "cleared",
               !.raw = ret,
               !.ret = into_sync_result(ret).tag,
               !.code = into_sync_result(ret).val]

\* RawHandle::clear (lib.rs:379-388): native clear, dealloc, mem::forget(self)
\* so that Drop does not run, then the native return value as io::Result
RawHandleClear(hv, ret, loaded) ==
    [hv EXCEPT !.log = @ \o <<CallL("clear", hv.size, loaded),
                              CallL("dealloc", hv.size, loaded)>>,
               !.st = "cleared",
               !.raw = ret,
               !.ret = into_sync_result(ret).tag,
               !.code = into_sync_result(ret).val]

\* impl Drop for RawHandle (lib.rs:391-400): native clear, whose return
\* value ret is discarded, then dealloc
RawHandleDrop(hv, ret, loaded) ==
    [hv EXCEPT !.log = @ \o <<CallL("clear", hv.size, loaded),
                              CallL("dealloc", hv.size, loaded)>>,
               !.st = "dropped",
               !.raw = ret]

\* a call of the native clear through the function pointer stored in the
\* block, made after the library was closed, is a call into unmapped code:
\* the process dies in it, or (the mapping still being there) it returns
DanglingClear(hv, loaded) ==
    [hv EXCEPT !.log = @ \o <<CallL("clear", hv.size, loaded)>>,
               !.st = "crashed"]

\* Handle::clear (lib.rs:326-333). The pattern `Handle { lib: _, handle }`
\* moves only `handle`; `lib` stays in `self` and is dropped when the function
\* returns, after RawHandle::clear has run.
HandleClear(h, ret) ==
    /\ ~crashed
    /\ hnd[h].st = "live"
    /\ hnd' = [hnd EXCEPT ![h] = RawHandleClear(hnd[h], ret, libLoaded)]
    /\ libRc' = RcDrop(libRc)
    /\ libLoaded' = LoadedAfterDrop(libRc, libLoaded)
    /\ UNCHANGED <<plugin, crashed>>

\* the state of the library when the fields of a dropped Handle reach the
\* `handle` field: fields are dropped in declaration order (lib.rs:315-320),
\* `lib: Rc<Library>` before `handle: Rc<RawHandle>`
LoadedAtRawDrop(rc, loaded) == LoadedAfterDrop(rc, loaded)

\* implicit drop of a Handle
HandleDrop(h, ret, dies) ==
    /\ ~crashed
    /\ hnd[h].st = "live"
    /\ LET loaded == LoadedAtRawDrop(libRc, libLoaded)
       IN  /\ libRc' = RcDrop(libRc)
           /\ libLoaded' = LoadedAfterDrop(libRc, libLoaded)
           /\ IF loaded
              THEN /\ ~dies
                   /\ hnd' = [hnd EXCEPT ![h] = RawHandleDrop(hnd[h], ret, loaded)]
                   /\ crashed' = FALSE
              ELSE /\ hnd' = [hnd EXCEPT ![h] =
                                 IF dies THEN DanglingClear(hnd[h], loaded)
                                 ELSE RawHandleDrop(hnd[h], ret, loaded)]
                   /\ crashed' = dies
    /\ UNCHANGED plugin

\* drop of the Plugin value (lib.rs:35-40): releases its Rc<Library>
PluginDrop ==
    /\ ~crashed
    /\ plugin = "open"
    /\ plugin' = "dropped"
    /\ libRc' = RcDrop(libRc)
    /\ libLoaded' = LoadedAfterDrop(libRc, libLoaded)
    /\ UNCHANGED <<hnd, crashed>>

----------------------------------------------------------------------------
(* C strings and UTF-8: CStr::to_str at core_.rs:149, registry.rs:126,     *)
(* proxy.rs:199                                                            *)

\* A C string is the bytes of the ASCII text `text` (a tuple of pieces, read
\* concatenated: a type name is <<"PipeWire:Interface:", "Node">>) followed by
\* the bytes `tail` (each 1 .. 255).
CStr(text, tail) == [text |-> text, tail |-> tail]

IsCont(b) == b >= 128 /\ b <= 191

\* std::str::from_utf8 on a byte sequence starting at a character boundary
RECURSIVE Utf8ValidFrom(_, _)
Utf8ValidFrom(bs, i) ==
    LET n == Len(bs)
        b == bs[i]
        c(k) == i + k <= n /\ IsCont(bs[i + k])
    IN  IF i > n THEN TRUE
        ELSE IF b < 128 THEN Utf8ValidFrom(bs, i + 1)
        ELSE IF b >= 194 /\ b <= 223 THEN c(1) /\ Utf8ValidFrom(bs, i + 2)
        ELSE IF b = 224 THEN c(1) /\ bs[i + 1] >= 160 /\ c(2) /\ Utf8ValidFrom(bs, i + 3)
        ELSE IF b = 237 THEN c(1) /\ bs[i + 1] <= 159 /\ c(2) /\ Utf8ValidFrom(bs, i + 3)
        ELSE IF b >= 225 /\ b <= 239 THEN c(1) /\ c(2) /\ Utf8ValidFrom(bs, i + 3)
        ELSE IF b = 240 THEN c(1) /\ bs[i + 1] >= 144 /\ c(2) /\ c(3)
                              /\ Utf8ValidFrom(bs, i + 4)
        ELSE IF b = 244 THEN c(1) /\ bs[i + 1] <= 143 /\ c(2) /\ c(3)
                              /\ Utf8ValidFrom(bs, i + 4)
        ELSE IF b >= 241 /\ b <= 243 THEN c(1) /\ c(2) /\ c(3) /\ Utf8ValidFrom(bs, i + 4)
        ELSE FALSE

\* CStr::to_str: Ok(the same bytes as &str) iff the bytes are valid UTF-8
to_str(c) ==
    IF Utf8ValidFrom(c.tail, 1) THEN [ok |-> TRUE, s |-> c] ELSE [ok |-> FALSE, s |-> c]

----------------------------------------------------------------------------
(* ForeignDict and its iterators: libspa/src/dict.rs *)

\* pointers to spa_dict_item are counted in items: element i of the backing
\* array is at items + i
null == 0
ITEMS == 16

\* Option<T>
Some(v) == [some |-> TRUE, v |-> v]
None == [some |-> FALSE, v |-> <<>>]

\* usize is 64 bits wide: four 16-bit limbs, least significant first
LIMB == 65536
Usize(a, b, c, d) == <<a, b, c, d>>

\* `x as usize` for an isize x: the two's complement pattern of x
as_usize(x) ==
    LET x1 == x \div LIMB
        x2 == x1 \div LIMB
        x3 == x2 \div LIMB
    IN  Usize(x % LIMB, x1 % LIMB, x2 % LIMB, x3 % LIMB)

\* keys and values of the entries: plain ones and ones that are not UTF-8
K0 == CStr(<<"K0">>, <<>>)
K1 == CStr(<<"K1">>, <<>>)
KBad == CStr(<<"K0">>, <<255>>)
V0 == CStr(<<"V0">>, <<>>)
V1 == CStr(<<"V1">>, <<>>)
VBad == CStr(<<"V0">>, <<192>>)
Missing == CStr(<<"missing">>, <<>>)

Item(k, v) == [key |-> k, value |-> v]
Entries == {Item(K0, V0), Item(K0, V1), Item(K0, VBad), Item(KBad, V0), Item(K1, V0)}
Arrays == UNION {[1 .. n -> Entries] : n \in 0 .. MaxItems}
DictFlags == {0, 1, 2}
GetKeys == {K0, K1, Missing}

spa_dict(flags, arr, items) ==
    [flags |-> flags, n_items |-> Len(arr), items |-> items, arr |-> arr]

\* the dicts a producer can hand over: a null items pointer only with no items
Dicts ==
    {spa_dict(f, a, ITEMS) : f \in DictFlags, a \in Arrays}
    \cup {spa_dict(f, <<>>, null) : f \in DictFlags}

\* *p for a pointer into the backing array
Deref(d, p) == d.arr[(p - d.items) + 1]

\* ReadableDict::iter_cstr (dict.rs:10-17)
iter_cstr(d) == [next |-> d.items, end |-> d.items + d.n_items]

\* faulty variant of CIter::next: the last element is not yielded
CIter_next_short(d, c) ==
    IF c.next # null /\ c.next + 1 < c.end
    THEN [c |-> [c EXCEPT !.next = @ + 1],
          item |-> Some(<<Deref(d, c.next).key, Deref(d, c.next).value>>)]
    ELSE [c |-> c, item |-> None]

\* CIter::next (dict.rs:127-136)
CIter_next(d, c) ==
    IF c.next # null /\ c.next < c.end
    THEN [c |-> [c EXCEPT !.next = @ + 1],
          item |-> Some(<<Deref(d, c.next).key, Deref(d, c.next).value>>)]
    ELSE [c |-> c, item |-> None]

\* CIter::size_hint (dict.rs:138-143)
CIter_size_hint(c) ==
    LET bound == as_usize(c.next - c.end)
    IN  <<bound, Some(bound)>>

\* Option::zip
zip(a, b) == IF a.some /\ b.some THEN Some(<<a.v, b.v>>) ELSE None

\* Result::ok of CStr::to_str
to_str_ok(c) == IF to_str(c).ok THEN Some(to_str(c).s) ELSE None

\* faulty variant of the closure of Iter::next: only the key is decoded
IterMap_key_only(k, v) == IF to_str(k).ok THEN Some(<<k, v>>) ELSE None

\* the closures given to find_map by Iter::next (dict.rs:155), Keys::next
\* (dict.rs:172) and Values::next (dict.rs:188)
IterMap(k, v) == zip(to_str_ok(k), to_str_ok(v))

\* faulty variant of the closure of Keys::next: goes through the pair filter
KeysMap_both(k, v) == IF IterMap(k, v).some THEN Some(k) ELSE None

KeysMap(k, v) == to_str_ok(k)
ValuesMap(k, v) == to_str_ok(v)

MapOf(kind, k, v) ==
    CASE kind = "iter" -> IterMap(k, v)
      [] kind = "keys" -> KeysMap(k, v)
      [] kind = "values" -> ValuesMap(k, v)
      [] OTHER -> Some(<<k, v>>)

\* Iterator::find_map on the inner CIter: advance until the closure gives
\* Some, or the CIter is exhausted
RECURSIVE find_map(_, _, _)
find_map(d, c, kind) ==
    LET r == CIter_next(d, c)
    IN  IF ~r.item.some THEN r
        ELSE LET m == MapOf(kind, r.item.v[1], r.item.v[2])
             IN  IF m.some THEN [c |-> r.c, item |-> m]
                 ELSE find_map(d, r.c, kind)

\* next() of the four iterators
next(d, kind, c) == IF kind = "cstr" THEN CIter_next(d, c) ELSE find_map(d, c, kind)

\* size_hint() of the four iterators (dict.rs:138-143, 158-161, 175-177,
\* 191-193)
size_hint(kind, c) ==
    IF kind = "iter" THEN <<as_usize(0), CIter_size_hint(c)[2]>>
    ELSE CIter_size_hint(c)

len(d) == d.n_items
is_empty(d) == len(d) = 0

\* Flags::from_bits_truncate (dict.rs:55-57, 109-115): SORTED is bit 0
flags(d) == d.flags % 2

\* Iterator::find on iter() with the predicate *k == key
RECURSIVE find_key(_, _, _)
find_key(d, c, key) ==
    LET r == find_map(d, c, "iter")
    IN  IF ~r.item.some THEN None
        ELSE IF r.item.v[1] = key THEN r.item
        ELSE find_key(d, r.c, key)

\* faulty variant of get: stops at the first entry with the key, as the raw
\* iterator sees it
get_first_raw(d, key) ==
    LET hits == {i \in 1 .. d.n_items : d.arr[i].key = key}
        i == CHOOSE i \in hits : \A j \in hits : i <= j
    IN  IF hits = {} THEN None ELSE to_str_ok(d.arr[i].value)

\* faulty variant of get: the last entry of iter() with the key wins
get_last(d, key) ==
    LET hits == {i \in 1 .. d.n_items :
                    d.arr[i].key = key /\ IterMap(d.arr[i].key, d.arr[i].value).some}
        i == CHOOSE i \in hits : \A j \in hits : i >= j
    IN  IF hits = {} THEN None ELSE Some(d.arr[i].value)

\* ReadableDict::get (dict.rs:68-70)
get(d, key) ==
    LET f == find_key(d, iter_cstr(d), key)
    IN  IF f.some THEN Some(f.v[2]) ELSE None

NoIter == [kind |-> NULL, next |-> null, end |-> null]
NoHint == <<>>
NoDictRes == [op |-> NULL, arg |-> NULL, val |-> NULL]

InitDict ==
    /\ dict = spa_dict(0, <<>>, null)
    /\ it = NoIter
    /\ yielded = <<>>
    /\ nones = 0
    /\ hint = NoHint
    /\ dres = NoDictRes

IterKinds == {"cstr", "iter", "keys", "values"}

\* iter_cstr(), iter(), keys(), values(): a fresh iterator
StartIter(kind) ==
    /\ dres.op = NULL
    /\ it' = [kind |-> kind, next |-> iter_cstr(dict).next, end |-> iter_cstr(dict).end]
    /\ yielded' = <<>>
    /\ nones' = 0
    /\ hint' = NoHint
    /\ UNCHANGED <<dict, dres>>

\* one call of next() on the iterator in use
IterNext ==
    /\ it.kind # NULL
    /\ nones < MaxNones
    /\ LET r == next(dict, it.kind, [next |-> it.next, end |-> it.end])
       IN  /\ it' = [it EXCEPT !.next = r.c.next]
           /\ yielded' = IF r.item.some THEN Append(yielded, r.item.v) ELSE yielded
           /\ nones' = IF r.item.some THEN nones ELSE nones + 1
    /\ hint' = NoHint
    /\ UNCHANGED <<dict, dres>>

\* one call of size_hint() on the iterator in use
SizeHint ==
    /\ it.kind # NULL
    /\ hint' = size_hint(it.kind, [next |-> it.next, end |-> it.end])
    /\ UNCHANGED <<dict, it, yielded, nones, dres>>

Query(op, arg, val) ==
    /\ it.kind = NULL
    /\ dres' = [op |-> op, arg |-> arg, val |-> val]
    /\ UNCHANGED <<dict, it, yielded, nones, hint>>

DictLen == Query("len", NULL, len(dict))
DictIsEmpty == Query("is_empty", NULL, is_empty(dict))
DictFlagsOf == Query("flags", NULL, flags(dict))
DictGet(key) == Query("get", key, get(dict, key))

----------------------------------------------------------------------------
(* ObjectType: registry.rs:187-252 (and the copy in types.rs:4-69) *)

KnownTypes ==
    {"Client", "ClientEndpoint", "ClientNode", "ClientSession", "Core", "Device",
     "Endpoint", "EndpointLink", "EndpointStream", "Factory", "Link", "Metadata",
     "Module", "Node", "Port", "Profiler", "Registry", "Session"}

TypePrefix == "PipeWire:Interface:"

\* concat!("PipeWire:Interface:", stringify!($x))
TypeName(x) == CStr(<<TypePrefix, x>>, <<>>)

Known(x) == [v |-> x, s |-> CStr(<<>>, <<>>)]
Other(s) == [v |-> "Other", s |-> s]

\* faulty variant of from_str: no name is matched
ObjectType_from_str_never_known(s) == Other(s)

ObjectType_from_str(s) ==
    IF \E x \in KnownTypes : s = TypeName(x)
    THEN Known(CHOOSE x \in KnownTypes : s = TypeName(x))
    ELSE Other(s)

ObjectType_to_str(t) == IF t.v = "Other" THEN t.s ELSE TypeName(t.v)

\* the bound client version, or a panic for Other
client_version(t) ==
    IF t.v = "Other" THEN [panic |-> TRUE, version |-> <<>>]
    ELSE [panic |-> FALSE, version |-> <<"PW_VERSION", t.v>>]

----------------------------------------------------------------------------
(* Permission: registry.rs:177-184 *)

PW_PERM_R == 256
PW_PERM_W == 128
PW_PERM_X == 64
PW_PERM_M == 8

PermAll == PW_PERM_R + PW_PERM_W + PW_PERM_X + PW_PERM_M

\* bitflags from_bits: None when a bit outside the declared flags is set
Permission_from_bits(bits) ==
    IF BitAnd32(bits, BitNot32(PermAll)) # 0
    THEN [some |-> FALSE, bits |-> 0]
    ELSE [some |-> TRUE, bits |-> bits]

----------------------------------------------------------------------------
(* Listener kinds, callback bundles and native event tables *)

Kinds == {"core", "registry", "proxy", "node", "port", "link"}

\* the callback categories of each kind: the fields of its ListenerLocalCallbacks
Slots(kind) ==
    CASE kind = "core" -> {"info", "done", "error"}
      [] kind = "registry" -> {"global", "global_remove"}
      [] kind = "proxy" -> {"destroy", "bound", "removed", "done", "error"}
      [] kind = "node" -> {"info", "param"}
      [] kind = "port" -> {"info", "param"}
      [] kind = "link" -> {"info"}

Fn(cbs, cb, trampoline) == IF cb \in cbs THEN trampoline ELSE NULL

\* faulty variant of the core table: the `done` slot is set when the `info`
\* callback was supplied
core_events_done_on_info(cbs) ==
    [version |-> "PW_VERSION_CORE_EVENTS",
     info |-> Fn(cbs, "info", "core_events_info"),
     done |-> Fn(cbs, "info", "core_events_done"),
     error |-> Fn(cbs, "error", "core_events_error")]

\* core_.rs:153-168
core_events(cbs) ==
    [version |-> "PW_VERSION_CORE_EVENTS",
     info |-> Fn(cbs, "info", "core_events_info"),
     done |-> Fn(cbs, "done", "core_events_done"),
     error |-> Fn(cbs, "error", "core_events_error")]

\* registry.rs:137-149
registry_events(cbs) ==
    [version |-> "PW_VERSION_REGISTRY_EVENTS",
     global |-> Fn(cbs, "global", "registry_events_global"),
     global_remove |-> Fn(cbs, "global_remove", "registry_events_global_remove")]

\* faulty variant of the proxy table: the `removed` slot is set when the
\* `bound` callback was supplied
proxy_events_copy_paste(cbs) ==
    [version |-> "PW_VERSION_PROXY_EVENTS",
     destroy |-> Fn(cbs, "destroy", "proxy_destroy"),
     bound |-> Fn(cbs, "bound", "proxy_bound"),
     removed |-> Fn(cbs, "bound", "proxy_removed"),
     done |-> Fn(cbs, "done", "proxy_done"),
     error |-> Fn(cbs, "error", "proxy_error")]

\* proxy.rs:203-228
proxy_events(cbs) ==
    [version |-> "PW_VERSION_PROXY_EVENTS",
     destroy |-> Fn(cbs, "destroy", "proxy_destroy"),
     bound |-> Fn(cbs, "bound", "proxy_bound"),
     removed |-> Fn(cbs, "removed", "proxy_removed"),
     done |-> Fn(cbs, "done", "proxy_done"),
     error |-> Fn(cbs, "error", "proxy_error")]

\* node.rs:214-226
node_events(cbs) ==
    [version |-> "VERSION_NODE_EVENTS",
     info |-> Fn(cbs, "info", "node_events_info"),
     param |-> Fn(cbs, "param", "node_events_param")]

\* port.rs:185-197
port_events(cbs) ==
    [version |-> "PW_VERSION_PORT_EVENTS",
     info |-> Fn(cbs, "info", "port_events_info"),
     param |-> Fn(cbs, "param", "port_events_param")]

\* link.rs:99-108
link_events(cbs) ==
    [version |-> "PW_VERSION_LINK_EVENTS",
     info |-> Fn(cbs, "info", "link_events_info")]

\* the event table register() builds for a listener of the given kind
EventsTable(kind, cbs) ==
    CASE kind = "core" -> core_events(cbs)
      [] kind = "registry" -> registry_events(cbs)
      [] kind = "proxy" -> proxy_events(cbs)
      [] kind = "node" -> node_events(cbs)
      [] kind = "port" -> port_events(cbs)
      [] kind = "link" -> link_events(cbs)

----------------------------------------------------------------------------
(* Hook-list memory: spa_hook nodes threaded into the target's spa_list *)

\* address of the list head inside the target object
HEAD == 0
\* address of the by-value copy of the hook that hook::remove works on
STACK == -1

EmptyFn == [x \in {} |-> NULL]

ListenerIds == 1 .. MaxListeners

IsHook(m, a) == a \in m.live /\ a \in DOMAIN m.hooks

\* (*a).next = v and (*a).prev = v; a write through a pointer that is neither
\* the list head of a target object that still exists nor an allocated hook
\* node is undefined behaviour
SetNext(m, a, v) ==
    IF a = HEAD /\ m.head.alive THEN [m EXCEPT !.head.next = v]
    ELSE IF a # HEAD /\ IsHook(m, a) THEN [m EXCEPT !.hooks[a].next = v]
    ELSE [m EXCEPT !.ub = TRUE]

SetPrev(m, a, v) ==
    IF a = HEAD /\ m.head.alive THEN [m EXCEPT !.head.prev = v]
    ELSE IF a # HEAD /\ IsHook(m, a) THEN [m EXCEPT !.hooks[a].prev = v]
    ELSE [m EXCEPT !.ub = TRUE]

\* Box::pin / Box::new: a fresh allocation
Alloc(m, a) == [m EXCEPT !.live = @ \cup {a}]

\* drop of a Box: the allocation ends and its content is gone; freeing what
\* is not allocated is undefined behaviour
Free(m, a) ==
    IF a \in m.live
    THEN [m EXCEPT !.live = @ \ {a},
                   !.hooks = [x \in DOMAIN @ \ {a} |-> @[x]]]
    ELSE [m EXCEPT !.ub = TRUE]

\* faulty variant of list::remove: (*elem.next).prev is left as it was
list_remove_next_only(m, elem) == SetNext(m, elem.prev, elem.next)

\* list::remove (libspa/src/list.rs:6-11; the same code is spa.rs:7-12)
list_remove(m, elem) ==
    LET m1 == SetNext(m, elem.prev, elem.next)
    IN  SetPrev(m1, elem.next, elem.prev)

\* the native spa_hook_list_append behind add_listener: fills hook.cb and
\* appends the node at the tail of the target's list. rm is the `removed`
\* finalizer the native side leaves in the node (NULL or a function).
spa_hook_list_append(m, node, funcs, data, rm) ==
    LET tail == m.head.prev
        new == [prev |-> tail, next |-> HEAD, funcs |-> funcs, data |-> data,
                removed |-> rm]
        m1 == [m EXCEPT !.hooks = (node :> new) @@ @]
        m2 == SetNext(m1, tail, node)
    IN  SetPrev(m2, HEAD, node)

\* faulty variant of register(): the hook node is not boxed, the native side
\* gets the address of the local, which is moved out when register() returns
register_ptrs_moved(events, data, listener) ==
    [node |-> STACK, funcs |-> events, data |-> data]

\* the pointers register() hands to the native add-listener call, given the
\* addresses of the three boxes (core_.rs:170-186, registry.rs:151-164,
\* proxy.rs:230-243, node.rs:228-241, port.rs:199-212, link.rs:110-123)
register_ptrs(events, data, listener) ==
    [node |-> listener, funcs |-> events, data |-> data]

\* the nodes of the list in forward order, as the native dispatcher walks
\* them; the walk ends at the head, and ends with the marker BAD when it
\* meets a pointer to something that is not an allocated hook node
BAD == -2

RECURSIVE WalkNext(_, _, _)
WalkNext(m, a, fuel) ==
    IF a = HEAD THEN <<>>
    ELSE IF fuel = 0 \/ ~IsHook(m, a) THEN <<BAD>>
    ELSE <<a>> \o WalkNext(m, m.hooks[a].next, fuel - 1)

RECURSIVE WalkPrev(_, _, _)
WalkPrev(m, a, fuel) ==
    IF a = HEAD THEN <<>>
    ELSE IF fuel = 0 \/ ~IsHook(m, a) THEN <<BAD>>
    ELSE <<a>> \o WalkPrev(m, m.hooks[a].prev, fuel - 1)

Forward(m) == WalkNext(m, m.head.next, Cardinality(DOMAIN m.hooks) + 1)
Backward(m) == WalkPrev(m, m.head.prev, Cardinality(DOMAIN m.hooks) + 1)

Reverse(q) == [i \in 1 .. Len(q) |-> q[Len(q) + 1 - i]]

----------------------------------------------------------------------------
(* Listener: register and drop *)

\* what the closures given to a builder do when they are called: the boxed
\* closures (core_.rs:59-65, 93-100) are any Fn of the caller, and they run inside
\* the native emission, so they can call back into this API before the
\* emission has finished. One call is modelled for each listener: none, the
\* drop of a listener of the same target, the registration of a further
\* listener with the same callbacks, the drop of the target object, or the
\* drop of the target object followed by the drop of all its listeners
\* (Proxies::remove, examples/pw-mon.rs:49-52, called from the `removed`
\* closure at examples/pw-mon.rs:172-176).
NoAct == [op |-> "none", l |-> 0]
DropAct(l) == [op |-> "drop", l |-> l]
RegisterAct(l) == [op |-> "register", l |-> l]
DropTargetAct == [op |-> "drop_target", l |-> 0]
RemoveAct == [op |-> "remove", l |-> 0]

\* orphan: the target object was already destroyed when the listener was
\* unlinked
NoListener ==
    [st |-> "none", kind |-> NULL, cbs |-> {}, events |-> HEAD, listener |-> HEAD,
     data |-> HEAD, reg |-> [node |-> HEAD, funcs |-> HEAD, data |-> HEAD],
     removed |-> NULL, via |-> NULL, ops |-> <<>>, orphan |-> FALSE, act |-> NoAct]

Running == panicked = NULL /\ ~mem.ub

\* the memory and the listeners, as a value the code of a handler works on
World ==
    [mem |-> mem, tables |-> tables, bundles |-> bundles, lst |-> lst, brk |-> brk]

\* ListenerLocalBuilder::register (core_.rs:122-196, registry.rs:117-174) and
\* the register() of the proxy, node, port and link builders. cbs is the set of
\* callbacks given to the builder. The builder borrows the target object, so
\* the target exists. act is what the closures in cbs do when they are called.
\* Gives the world after the call.
register(w, l, kind, cbs, rm, act) ==
    LET e == w.brk
        d == w.brk + 1
        n == w.brk + 2
        ptrs == register_ptrs(e, d, n)
        m1 == Alloc(Alloc(Alloc(w.mem, e), d), n)
        m2 == spa_hook_list_append(m1, ptrs.node, ptrs.funcs, ptrs.data, rm)
    IN  [mem |-> m2,
         tables |-> (e :> EventsTable(kind, cbs)) @@ w.tables,
         bundles |-> (d :> cbs) @@ w.bundles,
         lst |-> [w.lst EXCEPT ![l] =
                    [st |-> "live", kind |-> kind, cbs |-> cbs, events |-> e,
                     listener |-> n, data |-> d, reg |-> ptrs, removed |-> rm,
                     via |-> NULL, ops |-> <<>>, orphan |-> FALSE, act |-> act]],
         brk |-> w.brk + 3]

\* listeners are numbered in the order of their registration
CanRegister(w, l) ==
    /\ w.mem.head.alive
    /\ w.lst[l].st = "none"
    /\ \A k \in ListenerIds : k < l => w.lst[k].st # "none"

Register(l, kind, cbs, rm, act) ==
    /\ Running
    /\ kind = tkind
    /\ CanRegister(World, l)
    /\ LET w == register(World, l, kind, cbs, rm, act)
       IN  /\ mem' = w.mem
           /\ tables' = w.tables
           /\ bundles' = w.bundles
           /\ lst' = w.lst
           /\ brk' = w.brk
    /\ UNCHANGED <<tkind, delivered, invoked, skipped, panicked>>

Op(op, arg) == [op |-> op, arg |-> arg]

\* faulty variant of hook::remove: the finalizer is called before the node is
\* unlinked
hook_remove_finalize_first(m, node, hook) ==
    [m |-> list_remove(m, hook),
     ops |-> (IF hook.removed # NULL THEN <<Op("removed", STACK)>> ELSE <<>>)
             \o <<Op("unlink", node)>>]

\* hook::remove (libspa/src/hook.rs:8-16; the same code is spa.rs:14-22),
\* called with `*self.listener`, a copy of the node: unlink through the
\* copy's prev / next, then call the finalizer, if set, on the copy.
\* Gives the memory and the calls made.
hook_remove(m, node, hook) ==
    [m |-> list_remove(m, hook),
     ops |-> <<Op("unlink", node)>>
             \o (IF hook.removed # NULL THEN <<Op("removed", STACK)>> ELSE <<>>)]

\* drop of a Listener (core_.rs:87-91, registry.rs:91-95, proxy.rs:104-108,
\* node.rs:166-170, port.rs:137-141, link.rs:62-66): Drop::drop runs
\* hook::remove, then the fields are dropped in declaration order: events,
\* listener, data. Gives the memory and the calls made.
listener_drop(m, lv) ==
    LET r == hook_remove(m, lv.listener, m.hooks[lv.listener])
        m1 == Free(r.m, lv.events)
        m2 == Free(m1, lv.listener)
        m3 == Free(m2, lv.data)
    IN  [m |-> m3,
         ops |-> r.ops \o <<Op("free", lv.events), Op("free", lv.listener),
                            Op("free", lv.data)>>]

\* a Listener value goes away: via is "drop" when it goes out of scope and
\* "unregister" when Listener::unregister consumed it
consume(w, l, via) ==
    LET r == listener_drop(w.mem, w.lst[l])
    IN  [w EXCEPT !.mem = r.m,
                  !.lst = [@ EXCEPT ![l].st = "dropped", ![l].via = via,
                                    ![l].ops = r.ops,
                                    ![l].orphan = ~w.mem.head.alive]]

Consume(l, via) ==
    /\ Running
    /\ lst[l].st = "live"
    /\ LET w == consume(World, l, via)
       IN  /\ mem' = w.mem
           /\ lst' = w.lst
    /\ UNCHANGED <<tkind, tables, bundles, brk, delivered, invoked, skipped, panicked>>

DropListener(l) == Consume(l, "drop")

\* drop of the target object: impl Drop for Proxy (proxy.rs:46-52), which
\* Node, Port and Link hold as their field, and impl Drop for Registry
\* (registry.rs:63-69) call pw_proxy_destroy, after which the native object
\* and the head of its hook list are gone. The Listener types carry no
\* borrow of the target (proxy.rs:93-108), so their hook nodes stay as they
\* are. Core has no Drop of its own: the core object goes with its context,
\* impl Drop for Context (context.rs:42-46) calls pw_context_destroy, and
\* Context::connect (context.rs:27-39) returns the Core without a borrow of
\* the Context.
target_drop(w) == [w EXCEPT !.mem = [@ EXCEPT !.head.alive = FALSE]]

DropTarget ==
    /\ Running
    /\ mem.head.alive
    /\ mem' = target_drop(World).mem
    /\ UNCHANGED <<tkind, tables, bundles, lst, brk, delivered, invoked, skipped, panicked>>

\* Listener::unregister (core_.rs:81-85): consumes the listener, which drops it
Unregister(l) ==
    /\ lst[l].kind = "core"
    /\ Consume(l, "unregister")

----------------------------------------------------------------------------
(* Native event delivery and the trampolines *)

NoStr == CStr(<<>>, <<>>)
NoType == [v |-> "", s |-> NoStr]

\* what the native side passes to an event slot: the integer arguments, the
\* C string argument (error message or type name) and the permission bits
Payload(nums, str, perm) == [nums |-> nums, str |-> str, perm |-> perm]

\* what a closure is called with
Args(nums, text, perm, type_) ==
    [nums |-> nums, text |-> text, perm |-> perm, type_ |-> type_]

\* error messages: plain ASCII, a two-byte character, a byte that is never
\* valid, a truncated two-byte character
Msgs ==
    {CStr(<<"no memory">>, <<>>), CStr(<<"caf">>, <<195, 169>>),
     CStr(<<"bad">>, <<255>>), CStr(<<>>, <<195>>)}

\* type names of a global: a known one, an unknown one, one that is not UTF-8
TypeStrs ==
    {TypeName("Node"), TypeName("Badger"), CStr(<<TypePrefix>>, <<192, 128>>)}

\* permission bits: none, all declared flags, a declared flag with an
\* undeclared bit
Perms == {0, PermAll, PW_PERM_R + 16}

Payloads(kind, slot) ==
    CASE slot = "error" /\ kind = "core" ->
            {Payload(<<0, 1, -2>>, msg, 0) : msg \in Msgs}
      [] slot = "error" /\ kind = "proxy" ->
            {Payload(<<1, -2>>, msg, 0) : msg \in Msgs}
      [] slot = "global" ->
            {Payload(<<5, 3>>, t, perm) : t \in TypeStrs, perm \in Perms}
      [] slot = "global_remove" -> {Payload(<<5>>, NoStr, 0)}
      [] slot = "done" /\ kind = "core" -> {Payload(<<0, 7>>, NoStr, 0)}
      [] slot = "done" /\ kind = "proxy" -> {Payload(<<7>>, NoStr, 0)}
      [] slot = "bound" -> {Payload(<<5>>, NoStr, 0)}
      [] slot = "param" -> {Payload(<<7, 2, 0, 1>>, NoStr, 0)}
      [] slot = "info" -> {Payload(<<9>>, NoStr, 0)}
      [] OTHER -> {Payload(<<>>, NoStr, 0)}

\* a payload every trampoline accepts
PlainPayload(kind, slot) ==
    CASE slot = "error" /\ kind = "core" ->
            Payload(<<0, 1, -2>>, CStr(<<"no memory">>, <<>>), 0)
      [] slot = "error" /\ kind = "proxy" ->
            Payload(<<1, -2>>, CStr(<<"no memory">>, <<>>), 0)
      [] slot = "global" -> Payload(<<5, 3>>, TypeName("Node"), PermAll)
      [] OTHER -> CHOOSE p \in Payloads(kind, slot) : TRUE

\* callbacks.<cb>.as_ref().unwrap()(args): panics when the callback is absent
CallClosure(cbs, cb, args) ==
    IF cb \in cbs THEN [panic |-> NULL, cb |-> cb, args |-> args]
    ELSE [panic |-> "unwrap", cb |-> cb, args |-> args]

Panic(why, cb) == [panic |-> why, cb |-> cb, args |-> Args(<<>>, NoStr, 0, NoType)]

\* faulty variant of the error trampolines: the message is decoded lossily and
\* the closure is called whatever the bytes are
error_trampoline_lossy(cbs, p) ==
    CallClosure(cbs, "error", Args(p.nums, p.str, 0, NoType))

\* core_events_error (core_.rs:141-151) and proxy_error (proxy.rs:192-201):
\* the message is decoded with to_str().unwrap() before the closure is called
error_trampoline(cbs, p) ==
    LET message == to_str(p.str)
    IN  IF ~message.ok THEN Panic("utf8", "error")
        ELSE CallClosure(cbs, "error", Args(p.nums, message.s, 0, NoType))

\* GlobalObject::new (registry.rs:263-287)
GlobalObject_new(nums, permissions, type_) ==
    LET perm == Permission_from_bits(permissions)
    IN  [panic |-> ~perm.some,
         obj |-> Args(nums, NoStr, perm.bits, ObjectType_from_str(type_))]

\* registry_events_global (registry.rs:118-130)
registry_events_global(cbs, p) ==
    LET type_ == to_str(p.str)
        obj == GlobalObject_new(p.nums, p.perm, type_.s)
    IN  IF ~type_.ok THEN Panic("utf8", "global")
        ELSE IF obj.panic THEN Panic("permissions", "global")
        ELSE CallClosure(cbs, "global", obj.obj)

\* the trampolines that hand their arguments on unchanged
plain_trampoline(cbs, cb, p) == CallClosure(cbs, cb, Args(p.nums, NoStr, 0, NoType))

\* the code behind each function pointer an event table can hold
Trampoline(fn, cbs, p) ==
    CASE fn = "core_events_info" -> plain_trampoline(cbs, "info", p)
      [] fn = "core_events_done" -> plain_trampoline(cbs, "done", p)
      [] fn = "core_events_error" -> error_trampoline(cbs, p)
      [] fn = "registry_events_global" -> registry_events_global(cbs, p)
      [] fn = "registry_events_global_remove" -> plain_trampoline(cbs, "global_remove", p)
      [] fn = "proxy_destroy" -> plain_trampoline(cbs, "destroy", p)
      [] fn = "proxy_bound" -> plain_trampoline(cbs, "bound", p)
      [] fn = "proxy_removed" -> plain_trampoline(cbs, "removed", p)
      [] fn = "proxy_done" -> plain_trampoline(cbs, "done", p)
      [] fn = "proxy_error" -> error_trampoline(cbs, p)
      [] fn = "node_events_info" -> plain_trampoline(cbs, "info", p)
      [] fn = "node_events_param" -> plain_trampoline(cbs, "param", p)
      [] fn = "port_events_info" -> plain_trampoline(cbs, "info", p)
      [] fn = "port_events_param" -> plain_trampoline(cbs, "param", p)
      [] fn = "link_events_info" -> plain_trampoline(cbs, "info", p)

\* the listeners from l on are dropped, in the order of their registration
RECURSIVE listeners_drop(_, _)
listeners_drop(w, l) ==
    IF l > MaxListeners THEN w
    ELSE listeners_drop(IF w.lst[l].st = "live" THEN consume(w, l, "drop") ELSE w, l + 1)

\* the target object goes away, if it is of a kind that has a Drop (the
\* drop of a Core value does nothing)
proxy_t_drop(w, kind) ==
    IF w.mem.head.alive /\ kind # "core" THEN target_drop(w) ELSE w

\* the call a closure of listener l makes while it runs
Reenter(w, l) ==
    LET act == w.lst[l].act
    IN  CASE act.op = "drop" ->
                IF w.lst[act.l].st = "live" THEN consume(w, act.l, "drop") ELSE w
          [] act.op = "register" ->
                IF CanRegister(w, act.l)
                THEN register(w, act.l, w.lst[l].kind, w.lst[l].cbs, NULL, NoAct)
                ELSE w
          [] act.op = "drop_target" -> proxy_t_drop(w, w.lst[l].kind)
          [] act.op = "remove" -> listeners_drop(proxy_t_drop(w, w.lst[l].kind), 1)
          [] OTHER -> w

\* the body of the closure behind a bundle: the re-entrant call of the
\* listener that owns the bundle
Closure(w, data) ==
    LET owners == {l \in ListenerIds : w.lst[l].st = "live" /\ w.lst[l].data = data}
    IN  IF owners = {} THEN w ELSE Reenter(w, CHOOSE l \in owners : TRUE)

\* the state of an emission: the world, the slots called, the closures
\* called, the hooks skipped, the panic raised; ub when the dispatcher met a
\* dangling pointer, freed when a closure freed memory the emission is
\* still using (its own bundle, or the target object and its list head)
NoDispatch(w) ==
    [w |-> w, del |-> <<>>, inv |-> <<>>, skip |-> 0, pan |-> NULL, ub |-> FALSE,
     freed |-> FALSE]

\* the native dispatcher at one hook: call the slot of the hook's event
\* table if it is not NULL, with the hook's data pointer; the trampoline
\* calls the closure, which runs to its end before the trampoline returns
CallHook(a, slot, p, acc) ==
    LET w == acc.w
        hook == w.mem.hooks[a]
    IN  IF hook.funcs \notin w.mem.live THEN [acc EXCEPT !.ub = TRUE]
        ELSE IF w.tables[hook.funcs][slot] = NULL THEN [acc EXCEPT !.skip = @ + 1]
        ELSE IF hook.data \notin w.mem.live
             THEN [acc EXCEPT !.ub = TRUE,
                              !.del = @ \o <<[node |-> a, slot |-> slot, p |-> p]>>]
        ELSE LET r == Trampoline(w.tables[hook.funcs][slot], w.bundles[hook.data], p)
                 del == acc.del \o <<[node |-> a, slot |-> slot, p |-> p]>>
                 w1 == Closure(w, hook.data)
             IN  IF r.panic # NULL THEN [acc EXCEPT !.del = del, !.pan = r.panic]
                 ELSE [acc EXCEPT !.w = w1,
                                  !.del = del,
                                  !.inv = @ \o <<[data |-> hook.data, cb |-> r.cb,
                                                  args |-> r.args]>>,
                                  !.ub = @ \/ w1.mem.ub,
                                  !.freed = \/ @
                                            \/ hook.data \notin w1.mem.live
                                            \/ ~w1.mem.head.alive]

\* address of the cursor node the dispatcher keeps in the list while it walks
CURSOR == -3

\* the node at address a: the list head or a hook
NodeAt(m, a) == IF a = HEAD THEN m.head ELSE m.hooks[a]

\* spa_list_insert: elem is linked in behind the node at address a
list_insert(m, a, elem) ==
    LET nxt == NodeAt(m, a).next
        m1 == SetNext(SetPrev(m, elem, a), elem, nxt)
        m2 == SetPrev(m1, nxt, elem)
    IN  SetNext(m2, a, elem)

\* spa_list_cursor_start: the cursor node is linked in behind the list head
cursor_start(m) ==
    LET c == [prev |-> CURSOR, next |-> CURSOR, funcs |-> HEAD, data |-> HEAD,
              removed |-> NULL]
        m1 == [m EXCEPT !.hooks = (CURSOR :> c) @@ @, !.live = @ \cup {CURSOR}]
    IN  list_insert(m1, HEAD, CURSOR)

\* the step of spa_list_for_each_cursor: the node behind the cursor, pos, is
\* unlinked and linked in again before the cursor, so that the cursor stands
\* behind the hook that is called next
cursor_step(m, pos) ==
    LET m1 == list_remove(m, NodeAt(m, pos))
    IN  IF m1.ub THEN m1 ELSE list_insert(m1, m1.hooks[CURSOR].prev, pos)

\* spa_list_cursor_end: the cursor node is unlinked and its frame left
cursor_end(m) ==
    LET m1 == list_remove(m, m.hooks[CURSOR])
    IN  [m1 EXCEPT !.live = @ \ {CURSOR},
                   !.hooks = [x \in DOMAIN @ \ {CURSOR} |-> @[x]]]

\* the native dispatcher (spa_hook_list_call): every hook of the list in
\* order, found behind the cursor after each call, so that a hook unlinked
\* during a call is not visited and a hook appended during a call is, whatever
\* the closures did to the hook that was called; a panic in a trampoline ends
\* the delivery, and the list is then taken without the cursor of the frame
\* the panic left
RECURSIVE Dispatch(_, _, _, _)
Dispatch(slot, p, acc, fuel) ==
    IF acc.ub THEN acc
    ELSE IF acc.pan # NULL THEN [acc EXCEPT !.w.mem = cursor_end(@)]
    ELSE LET m == acc.w.mem
             pos == m.hooks[CURSOR].next
         IN  IF pos # HEAD /\ (fuel = 0 \/ ~IsHook(m, pos)) THEN [acc EXCEPT !.ub = TRUE]
             ELSE LET m1 == cursor_step(m, pos)
                  IN  IF m1.ub THEN [acc EXCEPT !.w.mem = m1, !.ub = TRUE]
                      ELSE IF pos = HEAD
                      THEN LET m2 == cursor_end(m1)
                           IN  [acc EXCEPT !.w.mem = m2, !.ub = m2.ub]
                      ELSE Dispatch(slot, p,
                                    CallHook(pos, slot, p, [acc EXCEPT !.w.mem = m1]),
                                    fuel - 1)

DispatchAll(w, slot, p) ==
    LET m == cursor_start(w.mem)
        acc == NoDispatch([w EXCEPT !.mem = m])
    IN  IF m.ub THEN [acc EXCEPT !.ub = TRUE]
        ELSE Dispatch(slot, p, acc, 2 * MaxListeners + 1)

\* the native side emits one event of category `slot` on the target. The
\* closures run inside the emission and what they do to the listeners and the
\* memory is part of it. When a closure freed memory the emission was still
\* using, the behaviour is undefined: `shows` tells whether the build at hand
\* goes wrong on it or carries on as if nothing had happened. No event is
\* emitted on a target object that was destroyed.
Emit(slot, p, shows) ==
    /\ Running
    /\ mem.head.alive
    /\ slot \in Slots(tkind)
    /\ Len(delivered) < MaxEvents
    /\ skipped < MaxEvents
    /\ LET r == DispatchAll(World, slot, p)
       IN  /\ delivered' = delivered \o r.del
           /\ invoked' = invoked \o r.inv
           /\ skipped' = skipped + r.skip
           /\ panicked' = r.pan
           /\ mem' = [r.w.mem EXCEPT !.ub = @ \/ r.ub \/ (shows /\ r.freed)]
           /\ tables' = r.w.tables
           /\ bundles' = r.w.bundles
           /\ lst' = r.w.lst
           /\ brk' = r.w.brk
    /\ UNCHANGED tkind

----------------------------------------------------------------------------
(* Proxy ownership and Registry::bind: proxy.rs:12-88, registry.rs:16-69,  *)
(* node.rs:16-29, port.rs:13-34, link.rs:15-39                             *)

\* proxy 0 is the Registry (itself a proxy, registry.rs:63-69); 1 .. MaxProxies
\* are the proxies the native bind hands out
REGISTRY == 0
ProxyIds == 0 .. MaxProxies

\* the wrapper types implementing ProxyT
WrapperTypes == {"Node", "Port", "Link"}

\* the wrappers whose ProxyT impl has upcast (port.rs:27-29, link.rs:25-27);
\* node.rs:21-29 has none
Upcastable == {"Port", "Link"}

\* ProxyT::type_() of a wrapper
type_(T) == Known(T)

\* advertised types of a global: the three wrapper types, a known type
\* without wrapper, and two unknown ones
OtherNames == {TypeName("Badger"), CStr(<<"x">>, <<>>)}
AdvertisedKnown == WrapperTypes \cup {"Client"}
AdvertisedTypes == {Known(x) : x \in AdvertisedKnown} \cup {Other(n) : n \in OtherNames}

NoWrapper == [type |-> NULL, proxy |-> REGISTRY]
NoProxy == [st |-> "none", type |-> NULL, destroys |-> 0, removed |-> FALSE, up |-> FALSE]
NoBind == [T |-> NULL, adv |-> NoType, nat |-> REGISTRY, native |-> REGISTRY,
           tag |-> "none", wrapper |-> NoWrapper]

\* faulty variant of Registry::bind: the native bind is called first and the
\* types are compared afterwards
Registry_bind_check_after(T, adv, nat) ==
    IF client_version(adv).panic
    THEN [T |-> T, adv |-> adv, nat |-> nat, native |-> REGISTRY,
          tag |-> "panic", wrapper |-> NoWrapper]
    ELSE IF adv # type_(T)
    THEN [T |-> T, adv |-> adv, nat |-> nat, native |-> nat,
          tag |-> "WrongProxyType", wrapper |-> NoWrapper]
    ELSE IF nat = REGISTRY
    THEN [T |-> T, adv |-> adv, nat |-> nat, native |-> nat,
          tag |-> "NoMemory", wrapper |-> NoWrapper]
    ELSE [T |-> T, adv |-> adv, nat |-> nat, native |-> nat,
          tag |-> "ok", wrapper |-> [type |-> T, proxy |-> nat]]

\* Registry::bind<T>(object) (registry.rs:32-60). adv is object.type_, nat is
\* the pointer the native bind returns when it is called (REGISTRY stands for
\* the null pointer here). `native` is the pointer the call returned, null
\* when the call was not made.
Registry_bind(T, adv, nat) ==
    IF adv # type_(T)
    THEN [T |-> T, adv |-> adv, nat |-> nat, native |-> REGISTRY,
          tag |-> "WrongProxyType", wrapper |-> NoWrapper]
    ELSE IF client_version(adv).panic
    THEN [T |-> T, adv |-> adv, nat |-> nat, native |-> REGISTRY,
          tag |-> "panic", wrapper |-> NoWrapper]
    ELSE IF nat = REGISTRY
    THEN [T |-> T, adv |-> adv, nat |-> nat, native |-> nat,
          tag |-> "NoMemory", wrapper |-> NoWrapper]
    ELSE [T |-> T, adv |-> adv, nat |-> nat, native |-> nat,
          tag |-> "ok", wrapper |-> [type |-> T, proxy |-> nat]]

\* impl Drop for Proxy (proxy.rs:46-52) and for Registry (registry.rs:63-69):
\* pw_proxy_destroy
proxy_drop(pv) == [pv EXCEPT !.destroys = @ + 1, !.st = "dropped"]

\* faulty variant of upcast: a second Proxy is made from the raw pointer and
\* the wrapper, still owning the first, is dropped
upcast_dup(pv) == [pv EXCEPT !.st = "proxy", !.up = TRUE, !.destroys = @ + 1]

\* ProxyT::upcast (link.rs:25-27, port.rs:27-29): moves the Proxy out of the
\* wrapper
upcast(pv) == [pv EXCEPT !.st = "proxy", !.up = TRUE]

\* the native side emits `removed` on the proxy: proxy_removed (proxy.rs:182-185)
\* calls the closure, and nothing else
proxy_removed(pv) == [pv EXCEPT !.removed = TRUE]

Bind(T, adv, nat) ==
    /\ proxies[REGISTRY].st = "registry"
    /\ nat # REGISTRY => /\ proxies[nat].st = "none"
                         /\ \A q \in 1 .. MaxProxies : q < nat => proxies[q].st # "none"
    /\ LET r == Registry_bind(T, adv, nat)
       IN  /\ bindResult' = r
           /\ proxies' =
                IF r.native = REGISTRY THEN proxies
                ELSE [proxies EXCEPT ![r.native] =
                        [NoProxy EXCEPT !.type = T,
                                        !.st = IF r.wrapper.proxy = r.native
                                               THEN "wrapper" ELSE "leaked"]]

Upcast(p) ==
    /\ proxies[p].st = "wrapper"
    /\ proxies[p].type \in Upcastable
    /\ proxies' = [proxies EXCEPT ![p] = upcast(@)]
    /\ UNCHANGED bindResult

\* ProxyT::from_proxy_unchecked (proxy.rs:77-87, link.rs:33-38) and the
\* constructors ProxyT::new of node.rs:26-28 and port.rs:23-25: the Proxy is
\* moved into a wrapper of type T, whatever type it was bound as
from_proxy_unchecked(pv, T) == [pv EXCEPT !.st = "wrapper", !.type = T]

FromProxy(p, T) ==
    /\ proxies[p].st = "proxy"
    /\ proxies' = [proxies EXCEPT ![p] = from_proxy_unchecked(@, T)]
    /\ UNCHANGED bindResult

RemoteRemoved(p) ==
    /\ proxies[p].st \in {"wrapper", "proxy"}
    /\ ~proxies[p].removed
    /\ proxies' = [proxies EXCEPT ![p] = proxy_removed(@)]
    /\ UNCHANGED bindResult

\* drop of a Node, Port or Link: drops its only field, the Proxy
DropWrapper(p) ==
    /\ proxies[p].st = "wrapper"
    /\ proxies' = [proxies EXCEPT ![p] = proxy_drop(@)]
    /\ UNCHANGED bindResult

\* drop of a Proxy obtained from upcast
DropProxy(p) ==
    /\ proxies[p].st = "proxy"
    /\ proxies' = [proxies EXCEPT ![p] = proxy_drop(@)]
    /\ UNCHANGED bindResult

DropRegistry ==
    /\ proxies[REGISTRY].st = "registry"
    /\ proxies' = [proxies EXCEPT ![REGISTRY] = proxy_drop(@)]
    /\ UNCHANGED bindResult

InitProxy ==
    /\ proxies = [p \in ProxyIds |->
                    IF p = REGISTRY THEN [NoProxy EXCEPT !.st = "registry"] ELSE NoProxy]
    /\ bindResult = NoBind

----------------------------------------------------------------------------
(* ObjectType as a function of the type-name string *)

\* type-name strings: the 18 known names, and names that are not known:
\* an unknown interface, a known one in lower case, the bare prefix, a name
\* without the prefix, with a longer or shorter identifier, with another
\* prefix, with a non-ASCII character after it, and the empty string
TypeSamples ==
    {TypeName(x) : x \in KnownTypes}
    \cup {TypeName("Badger"), TypeName("node"), TypeName(""), TypeName("NodeX"),
          TypeName("Nod"), CStr(<<"Node">>, <<>>), CStr(<<>>, <<>>),
          CStr(<<"Pipewire:Interface:", "Node">>, <<>>),
          CStr(<<TypePrefix, "Node">>, <<195, 169>>),
          CStr(<<" ", TypePrefix, "Node">>, <<>>)}

NoTy ==
    [st |-> "none", s |-> CStr(<<>>, <<>>), t |-> Other(CStr(<<>>, <<>>)),
     back |-> [done |-> FALSE, s |-> CStr(<<>>, <<>>)],
     cv |-> [done |-> FALSE, panic |-> FALSE, version |-> <<>>]]

\* ObjectType::from_str(s)
FromStr(s) ==
    /\ ty.st = "none"
    /\ ty' = [NoTy EXCEPT !.st = "typed", !.s = s, !.t = ObjectType_from_str(s)]
    /\ UNCHANGED <<ifc, fac>>

\* to_str() on the ObjectType made
ToStr ==
    /\ ty.st = "typed"
    /\ ~ty.back.done
    /\ ty' = [ty EXCEPT !.back = [done |-> TRUE, s |-> ObjectType_to_str(ty.t)]]
    /\ UNCHANGED <<ifc, fac>>

\* client_version() on the ObjectType made
ClientVersion ==
    /\ ty.st = "typed"
    /\ ~ty.cv.done
    /\ LET r == client_version(ty.t)
       IN  ty' = [ty EXCEPT !.cv = [done |-> TRUE, panic |-> r.panic,
                                    version |-> r.version]]
    /\ UNCHANGED <<ifc, fac>>

----------------------------------------------------------------------------
(* Handle::interface: libspa/src/lib.rs:341-366 *)

\* libc::ENOTSUP
ENOTSUP == 95

\* an implementor of Interface: its NAME bytes and its VERSION
\* (libspa/src/interface.rs:60-66)
IfaceT(name, version) == [NAME |-> name, VERSION |-> version]

\* NAME samples: "Log\0", "Log" without the NUL, "L\0g\0" with a NUL inside,
\* and no bytes at all
IfaceNames == {<<76, 111, 103, 0>>, <<76, 111, 103>>, <<76, 0, 103, 0>>, <<>>}
IfaceTypes == {IfaceT(n, v) : n \in IfaceNames, v \in {0, 1}}

\* what the native get_interface may return, and the version it may leave
\* in the header of the interface
IfaceRets == I32s \cup {-ENOTSUP, -22}
IfaceVersions == {0, 1, 2}

\* CStr::from_bytes_with_nul: Ok iff the only NUL is the last byte
from_bytes_with_nul(bytes) ==
    /\ Len(bytes) > 0
    /\ bytes[Len(bytes)] = 0
    /\ \A i \in 1 .. Len(bytes) - 1 : bytes[i] # 0

\* faulty variant of interface: the version of the header is not compared
interface_any_version(T, ret, version) ==
    LET r == into_sync_result(ret)
    IN  IF ~from_bytes_with_nul(T.NAME) THEN "panic"
        ELSE IF r.tag \in {"panic", "overflow"} THEN "panic"
        ELSE IF r.tag = "err" THEN (IF r.val = ENOTSUP THEN "none" ELSE "panic")
        ELSE "some"

\* Handle::interface::<T>() where the native get_interface returns ret and,
\* on success, an interface whose header holds `version`: "some" for a typed
\* view, "none" for None, "panic" when the call does not return
interface(T, ret, version) ==
    LET r == into_sync_result(ret)
    IN  IF ~from_bytes_with_nul(T.NAME) THEN "panic"
        ELSE IF r.tag \in {"panic", "overflow"} THEN "panic"
        ELSE IF r.tag = "err" THEN (IF r.val = ENOTSUP THEN "none" ELSE "panic")
        ELSE IF version # T.VERSION THEN "none"
        ELSE "some"

NoIfc == [st |-> "none", T |-> IfaceT(<<>>, 0), ret |-> 0, version |-> 0, out |-> NULL]

\* a call of interface::<T>() on a handle
Interface(T, ret, version) ==
    /\ ifc.st = "none"
    /\ ifc' = [st |-> "called", T |-> T, ret |-> ret, version |-> version,
               out |-> interface(T, ret, version)]
    /\ UNCHANGED <<ty, fac, overflow_checks>>

----------------------------------------------------------------------------
(* Plugin::factories, FactoryIter, Plugin::factory: libspa/src/lib.rs:103-152 *)

\* The factory table of the loaded module, as its enumeration entry point
\* presents it: entry i + 1 holds what a call with the cursor at i returns,
\* and the factory it hands out when that value is positive. Past the last
\* entry the entry point returns 0.
FactorySlot(name, ret) == [name |-> name, ret |-> ret]

\* names of factories: two plain ones and one that is not UTF-8
FactoryNames == {CStr(<<"a">>, <<>>), CStr(<<"b">>, <<>>), CStr(<<"a">>, <<255>>)}
\* return values: the usual 1, another positive value, one with bit 30
\* set, -ENOENT
EnumRets == {1, 2, SPA_ASYNC_BIT + 1, -2}
Modules ==
    UNION {[1 .. n -> {FactorySlot(nm, r) : nm \in FactoryNames, r \in EnumRets}] :
           n \in 0 .. MaxFactories}

\* names asked of Plugin::factory: the plain ones, the lossy form of the one
\* that is not UTF-8, a name with a trailing NUL (examples/smoke.rs:12)
FindNames ==
    {CStr(<<"a">>, <<>>), CStr(<<"b">>, <<>>), CStr(<<"a">>, <<239, 191, 189>>),
     CStr(<<"a">>, <<0>>)}

\* the native spa_handle_factory_enum(&factory, &index) of the module
\* (called at lib.rs:141): what it returns, the factory it stored and the
\* cursor it left
enum_fn(mod, index) ==
    IF index < Len(mod) /\ mod[index + 1].ret > 0
    THEN [ret |-> mod[index + 1].ret, factory |-> mod[index + 1].name,
          index |-> index + 1]
    ELSE IF index < Len(mod)
    THEN [ret |-> mod[index + 1].ret, factory |-> NoStr, index |-> index]
    ELSE [ret |-> 0, factory |-> NoStr, index |-> index]

\* faulty variant of FactoryIter::next: the entry point gets a copy of the
\* cursor, and the cursor of the iterator stays where it was
FactoryIter_next_cursor_copy(mod, index) ==
    LET e == enum_fn(mod, index)
        r == into_sync_result(e.ret)
    IN  IF r.tag # "ok"
        THEN [tag |-> "panic", factory |-> NoStr, ret |-> e.ret, index |-> index]
        ELSE IF r.val = 0
        THEN [tag |-> "none", factory |-> NoStr, ret |-> e.ret, index |-> index]
        ELSE [tag |-> "some", factory |-> e.factory, ret |-> e.ret, index |-> index]

\* FactoryIter::next (lib.rs:133-152) with the cursor at index:
\* into_sync_result().unwrap() panics on an async and on a negative value,
\* 0 gives None, anything else Some(Factory). index is the cursor afterwards.
FactoryIter_next(mod, index) ==
    LET e == enum_fn(mod, index)
        r == into_sync_result(e.ret)
    IN  IF r.tag # "ok"
        THEN [tag |-> "panic", factory |-> NoStr, ret |-> e.ret, index |-> e.index]
        ELSE IF r.val = 0
        THEN [tag |-> "none", factory |-> NoStr, ret |-> e.ret, index |-> e.index]
        ELSE [tag |-> "some", factory |-> e.factory, ret |-> e.ret, index |-> e.index]

\* the bytes a UTF-8 decoder takes at position i: a whole character, or the
\* longest prefix of one that is followed by a byte that cannot continue it
Utf8Need(b) ==
    IF b < 128 THEN 1
    ELSE IF b >= 194 /\ b <= 223 THEN 2
    ELSE IF b >= 224 /\ b <= 239 THEN 3
    ELSE IF b >= 240 /\ b <= 244 THEN 4
    ELSE 0

Utf8Second(b, c) ==
    CASE b = 224 -> c >= 160 /\ c <= 191
      [] b = 237 -> c >= 128 /\ c <= 159
      [] b = 240 -> c >= 144 /\ c <= 191
      [] b = 244 -> c >= 128 /\ c <= 143
      [] OTHER -> IsCont(c)

Utf8Step(bs, i) ==
    LET b == bs[i]
        n == Utf8Need(b)
        has(k) == i + k <= Len(bs)
    IN  IF n = 0 THEN [ok |-> FALSE, len |-> 1]
        ELSE IF n = 1 THEN [ok |-> TRUE, len |-> 1]
        ELSE IF ~(has(1) /\ Utf8Second(b, bs[i + 1])) THEN [ok |-> FALSE, len |-> 1]
        ELSE IF n = 2 THEN [ok |-> TRUE, len |-> 2]
        ELSE IF ~(has(2) /\ IsCont(bs[i + 2])) THEN [ok |-> FALSE, len |-> 2]
        ELSE IF n = 3 THEN [ok |-> TRUE, len |-> 3]
        ELSE IF ~(has(3) /\ IsCont(bs[i + 3])) THEN [ok |-> FALSE, len |-> 3]
        ELSE [ok |-> TRUE, len |-> 4]

\* String::from_utf8_lossy on the bytes from i on: characters are kept, each
\* invalid run becomes U+FFFD (EF BF BD)
RECURSIVE from_utf8_lossy(_, _)
from_utf8_lossy(bs, i) ==
    IF i > Len(bs) THEN <<>>
    ELSE LET st == Utf8Step(bs, i)
         IN  (IF st.ok THEN SubSeq(bs, i, i + st.len - 1) ELSE <<239, 191, 189>>)
             \o from_utf8_lossy(bs, i + st.len)

\* CStr::to_string_lossy
to_string_lossy(c) == CStr(c.text, from_utf8_lossy(c.tail, 1))

\* Factory::name (lib.rs:188-190)
Factory_name(f) == to_string_lossy(f)

\* Iterator::find over a fresh FactoryIter, the cursor being at index; a
\* search that does not end within fuel steps is reported as "hang"
RECURSIVE find(_, _, _, _)
find(mod, index, name, fuel) ==
    LET n == FactoryIter_next(mod, index)
    IN  IF n.tag # "some" THEN [tag |-> n.tag, factory |-> NoStr, pos |-> 0]
        ELSE IF Factory_name(n.factory) = name
        THEN [tag |-> "some", factory |-> n.factory, pos |-> n.index]
        ELSE IF fuel = 0 THEN [tag |-> "hang", factory |-> NoStr, pos |-> 0]
        ELSE find(mod, n.index, name, fuel - 1)

\* Plugin::factory(name) (lib.rs:113-115): factories() starts at index 0
factory(mod, name) == find(mod, 0, name, Len(mod))

NoFind == [done |-> FALSE, name |-> NoStr, tag |-> "none", factory |-> NoStr, pos |-> 0]

\* enums: the number of factories() calls made; index: the cursor of the
\* FactoryIter in use; log: the next() calls made on it; found: the last
\* Plugin::factory call
NoFac == [st |-> "none", module |-> <<>>, enums |-> 0, index |-> 0, log |-> <<>>,
          found |-> NoFind]

FacRunning == fac.st = "open"
NonesIn(log) == Cardinality({k \in 1 .. Len(log) : log[k].tag = "none"})

\* Plugin::factories() (lib.rs:104-106, 125-127): a new FactoryIter with
\* index 0; the one in use before is dropped
Factories ==
    /\ FacRunning
    /\ fac.enums < MaxEnums
    /\ fac' = [fac EXCEPT !.enums = @ + 1, !.index = 0, !.log = <<>>]
    /\ UNCHANGED <<ty, ifc>>

\* next() on the FactoryIter in use
FactoryNext ==
    /\ FacRunning
    /\ fac.enums > 0
    /\ NonesIn(fac.log) < MaxNones
    /\ LET n == FactoryIter_next(fac.module, fac.index)
           e == [at |-> fac.index, ret |-> n.ret, tag |-> n.tag, factory |-> n.factory,
                 left |-> n.index]
       IN  fac' = [fac EXCEPT !.index = n.index, !.log = Append(@, e),
                              !.st = IF n.tag = "panic" THEN "panicked" ELSE @]
    /\ UNCHANGED <<ty, ifc>>

\* Plugin::factory(name)
PluginFactory(name) ==
    /\ FacRunning
    /\ ~fac.found.done
    /\ LET r == factory(fac.module, name)
       IN  fac' = [fac EXCEPT !.found = [done |-> TRUE, name |-> name, tag |-> r.tag,
                                         factory |-> r.factory, pos |-> r.pos],
                              !.st = IF r.tag = "panic" THEN "panicked" ELSE @]
    /\ UNCHANGED <<ty, ifc>>

InitQuery ==
    /\ ty = NoTy
    /\ ifc = NoIfc
    /\ fac = NoFac

----------------------------------------------------------------------------
(* Specifications of the listener code *)

InitMem ==
    [head |-> [next |-> HEAD, prev |-> HEAD, alive |-> TRUE], hooks |-> EmptyFn,
     live |-> {}, ub |-> FALSE]

InitListenerOn(kinds) ==
    /\ tkind \in kinds
    /\ mem = InitMem
    /\ tables = EmptyFn
    /\ bundles = EmptyFn
    /\ lst = [l \in ListenerIds |-> NoListener]
    /\ brk = 1
    /\ delivered = <<>>
    /\ invoked = <<>>
    /\ skipped = 0
    /\ panicked = NULL

\* callback sets tried where several listeners share a list
CbSamples(kind) == {{}, {CHOOSE cb \in Slots(kind) : TRUE}, Slots(kind)}

Finalizers == {NULL, "removed_fn"}

\* re-entrant calls tried for the closures of listener l: the drop of its
\* own listener, the registration of the next listener, and the drop of the
\* listener registered after it (of the first one, for the last) or, on a
\* core, whose drop does nothing, the drop of all listeners
Follower(l) == (l % MaxListeners) + 1
ActSamples(kind, l) ==
    {DropAct(l), RegisterAct(Follower(l)),
     IF kind = "core" THEN RemoveAct ELSE DropAct(Follower(l))}

\* what a builder is given where several listeners share a list: every
\* sample of callbacks and finalizer with closures that do not call back,
\* and all callbacks with each re-entrant call
RegSamples(kind, l) ==
    {<<cbs, rm, NoAct>> : cbs \in CbSamples(kind), rm \in Finalizers}
    \cup {<<Slots(kind), NULL, act>> : act \in ActSamples(kind, l)}

InitListener ==
    InitHandle /\ InitListenerOn({"core", "registry"}) /\ InitProxy /\ InitQuery /\ InitResult /\ InitDict

NextListener ==
    \/ \E l \in ListenerIds : \E r \in RegSamples(tkind, l) :
          Register(l, tkind, r[1], r[2], r[3]) /\ UNCHANGED <<hvars, pvars, rvars, dvars, qvars>>
    \/ \E l \in ListenerIds : DropListener(l) /\ UNCHANGED <<hvars, pvars, rvars, dvars, qvars>>
    \/ \E l \in ListenerIds : Unregister(l) /\ UNCHANGED <<hvars, pvars, rvars, dvars, qvars>>

SpecListener == InitListener /\ [][NextListener]_vars

InitBridge == InitHandle /\ InitListenerOn(Kinds) /\ InitProxy /\ InitQuery /\ InitResult /\ InitDict

\* the first listener has any subset of the callbacks with closures that do
\* not call back, or all callbacks with closures that make any of the
\* re-entrant calls; a second one has all callbacks and closures that do not
\* call back
BridgeActs == {DropAct(1), DropAct(2), RegisterAct(2), DropTargetAct, RemoveAct}
BridgeSamples(kind) ==
    {<<cbs, NoAct>> : cbs \in SUBSET Slots(kind)}
    \cup {<<Slots(kind), act>> : act \in BridgeActs}

NextBridge ==
    \/ \E r \in BridgeSamples(tkind) :
          Register(1, tkind, r[1], NULL, r[2]) /\ UNCHANGED <<hvars, pvars, rvars, dvars, qvars>>
    \/ Register(2, tkind, Slots(tkind), NULL, NoAct)
          /\ UNCHANGED <<hvars, pvars, rvars, dvars, qvars>>
    \/ \E slot \in Slots(tkind), shows \in BOOLEAN : \E p \in Payloads(tkind, slot) :
          Emit(slot, p, shows) /\ UNCHANGED <<hvars, pvars, rvars, dvars, qvars>>
    \/ \E l \in 1 .. 2 : DropListener(l) /\ UNCHANGED <<hvars, pvars, rvars, dvars, qvars>>

SpecBridge == InitBridge /\ [][NextBridge]_vars

----------------------------------------------------------------------------
(* Specification of the listeners of a target object that can be dropped *)

Targets == Kinds

InitTarget == InitHandle /\ InitListenerOn(Targets) /\ InitProxy /\ InitQuery /\ InitResult /\ InitDict

NextTarget ==
    \/ \E l \in ListenerIds, cbs \in {{}, Slots(tkind)}, rm \in Finalizers :
          Register(l, tkind, cbs, rm, NoAct) /\ UNCHANGED <<hvars, pvars, rvars, dvars, qvars>>
    \/ \E l \in ListenerIds : DropListener(l) /\ UNCHANGED <<hvars, pvars, rvars, dvars, qvars>>
    \/ DropTarget /\ UNCHANGED <<hvars, pvars, rvars, dvars, qvars>>

SpecTarget == InitTarget /\ [][NextTarget]_vars

----------------------------------------------------------------------------
(* Specification of the handle code *)

NextHandle ==
    \/ \E h \in HandleIds, s1 \in Sizes, s2 \in Sizes, ret \in NativeRets,
          null_block \in BOOLEAN :
          Instantiate(h, s1, s2, ret, null_block)
          /\ UNCHANGED <<lvars, pvars, rvars, dvars, qvars>>
    \/ \E h \in HandleIds, ret \in NativeRets :
          HandleClear(h, ret) /\ UNCHANGED <<lvars, pvars, rvars, dvars, qvars>>
    \/ \E h \in HandleIds, ret \in NativeRets, dies \in BOOLEAN :
          HandleDrop(h, ret, dies) /\ UNCHANGED <<lvars, pvars, rvars, dvars, qvars>>
    \/ PluginDrop /\ UNCHANGED <<lvars, pvars, rvars, dvars, qvars>>

InitAll == InitHandle /\ InitListenerOn({"core"}) /\ InitProxy /\ InitQuery /\ InitResult /\ InitDict

\* the handle code converts native return values, so both build profiles
\* of the negation are looked at
InitHandles ==
    /\ InitHandle /\ InitListenerOn({"core"}) /\ InitProxy /\ InitQuery /\ InitDict
    /\ overflow_checks \in BOOLEAN
    /\ sres = NoRes
    /\ sout = NoOut

SpecHandle == InitHandles /\ [][NextHandle]_vars

----------------------------------------------------------------------------
(* Specification of the type-name code *)

NextType ==
    \/ \E s \in TypeSamples : FromStr(s) /\ UNCHANGED <<hvars, lvars, pvars, rvars, dvars>>
    \/ ToStr /\ UNCHANGED <<hvars, lvars, pvars, rvars, dvars>>
    \/ ClientVersion /\ UNCHANGED <<hvars, lvars, pvars, rvars, dvars>>

SpecType == InitAll /\ [][NextType]_vars

----------------------------------------------------------------------------
(* Specification of the interface query: both build profiles *)

NextIface ==
    \E T \in IfaceTypes, ret \in IfaceRets, version \in IfaceVersions :
        Interface(T, ret, version) /\ UNCHANGED <<hvars, lvars, pvars, sres, sout, dvars>>

SpecIface == InitHandles /\ [][NextIface]_vars

----------------------------------------------------------------------------
(* Specification of the factory enumeration: every sample module *)

InitFactory ==
    /\ InitHandle /\ InitListenerOn({"core"}) /\ InitProxy /\ InitResult /\ InitDict
    /\ ty = NoTy
    /\ ifc = NoIfc
    /\ \E mod \in Modules : fac = [NoFac EXCEPT !.st = "open", !.module = mod]

NextFactory ==
    \/ Factories /\ UNCHANGED <<hvars, lvars, pvars, rvars, dvars>>
    \/ FactoryNext /\ UNCHANGED <<hvars, lvars, pvars, rvars, dvars>>
    \/ \E name \in FindNames :
          PluginFactory(name) /\ UNCHANGED <<hvars, lvars, pvars, rvars, dvars>>

SpecFactory == InitFactory /\ [][NextFactory]_vars

----------------------------------------------------------------------------
(* Specification of the proxy code *)

NextProxy ==
    \/ \E T \in WrapperTypes, adv \in AdvertisedTypes, nat \in ProxyIds :
          Bind(T, adv, nat) /\ UNCHANGED <<hvars, lvars, rvars, dvars, qvars>>
    \/ \E p \in 1 .. MaxProxies : Upcast(p) /\ UNCHANGED <<hvars, lvars, rvars, dvars, qvars>>
    \/ \E p \in 1 .. MaxProxies, T \in WrapperTypes :
          FromProxy(p, T) /\ UNCHANGED <<hvars, lvars, rvars, dvars, qvars>>
    \/ \E p \in 1 .. MaxProxies : RemoteRemoved(p) /\ UNCHANGED <<hvars, lvars, rvars, dvars, qvars>>
    \/ \E p \in 1 .. MaxProxies : DropWrapper(p) /\ UNCHANGED <<hvars, lvars, rvars, dvars, qvars>>
    \/ \E p \in 1 .. MaxProxies : DropProxy(p) /\ UNCHANGED <<hvars, lvars, rvars, dvars, qvars>>
    \/ DropRegistry /\ UNCHANGED <<hvars, lvars, rvars, dvars, qvars>>

SpecProxy == InitAll /\ [][NextProxy]_vars

----------------------------------------------------------------------------
(* Specification of the dict code: every dict over the sample entries *)

InitDictIn ==
    /\ InitHandle /\ InitListenerOn({"core"}) /\ InitProxy /\ InitQuery /\ InitResult
    /\ dict \in Dicts
    /\ it = NoIter
    /\ yielded = <<>>
    /\ nones = 0
    /\ hint = NoHint
    /\ dres = NoDictRes

NextDict ==
    \/ \E kind \in IterKinds : StartIter(kind) /\ UNCHANGED <<hvars, lvars, pvars, rvars, qvars>>
    \/ IterNext /\ UNCHANGED <<hvars, lvars, pvars, rvars, qvars>>
    \/ SizeHint /\ UNCHANGED <<hvars, lvars, pvars, rvars, qvars>>
    \/ DictLen /\ UNCHANGED <<hvars, lvars, pvars, rvars, qvars>>
    \/ DictIsEmpty /\ UNCHANGED <<hvars, lvars, pvars, rvars, qvars>>
    \/ DictFlagsOf /\ UNCHANGED <<hvars, lvars, pvars, rvars, qvars>>
    \/ \E key \in GetKeys : DictGet(key) /\ UNCHANGED <<hvars, lvars, pvars, rvars, qvars>>

SpecDict == InitDictIn /\ [][NextDict]_vars

----------------------------------------------------------------------------
(* Specification of SpaResult: both build profiles, every constructor on   *)
(* every sample input, every method on what was constructed                *)

InitResultIn ==
    /\ InitHandle /\ InitListenerOn({"core"}) /\ InitProxy /\ InitQuery /\ InitDict
    /\ overflow_checks \in BOOLEAN
    /\ sres = NoRes
    /\ sout = NoOut

NextResult ==
    \/ \E val \in I32s : NewOk(val) /\ UNCHANGED <<hvars, lvars, pvars, dvars, qvars>>
    \/ \E seq \in I32s : NewAsync(seq) /\ UNCHANGED <<hvars, lvars, pvars, dvars, qvars>>
    \/ \E code \in I32s : NewErr(code) /\ UNCHANGED <<hvars, lvars, pvars, dvars, qvars>>
    \/ \E res \in I32s : FromRaw(res) /\ UNCHANGED <<hvars, lvars, pvars, dvars, qvars>>
    \/ IntoRaw /\ UNCHANGED <<hvars, lvars, pvars, dvars, qvars>>
    \/ UnwrapOk /\ UNCHANGED <<hvars, lvars, pvars, dvars, qvars>>
    \/ UnwrapAsync /\ UNCHANGED <<hvars, lvars, pvars, dvars, qvars>>
    \/ UnwrapError /\ UNCHANGED <<hvars, lvars, pvars, dvars, qvars>>
    \/ IntoSyncResult /\ UNCHANGED <<hvars, lvars, pvars, dvars, qvars>>
    \/ IntoAsyncResult /\ UNCHANGED <<hvars, lvars, pvars, dvars, qvars>>

SpecResult == InitResultIn /\ [][NextResult]_vars

----------------------------------------------------------------------------
(* Properties *)

OpsOf(h) == [i \in 1 .. Len(hnd[h].log) |-> hnd[h].log[i].op]
Count(q, x) == Cardinality({i \in 1 .. Len(q) : q[i] = x})

\* C1: for every Handle, the plugin's shared library is still loaded at the
\* moment the native `clear` entry point is invoked, on Handle::clear and on
\* implicit drop, in every order of dropping the Plugin and its Handles.
C1_LibraryLoadedAtClear ==
    \A h \in HandleIds : \A i \in 1 .. Len(hnd[h].log) :
        hnd[h].log[i].op = "clear" => hnd[h].log[i].lib

\* C2: the native `clear` is invoked exactly once for each successfully
\* instantiated object and its block is released exactly once, after that
\* call; a Handle::clear that tore the object down is not followed by a second
\* teardown. (Where the process dies inside the clear call of C1, the call was
\* made once and nothing follows it.)
C2_TeardownExactlyOnce ==
    \A h \in HandleIds :
        /\ Count(OpsOf(h), "clear") <= 1
        /\ Count(OpsOf(h), "dealloc") <= 1
        /\ hnd[h].st = "live" => OpsOf(h) = <<"alloc", "init">>
        /\ hnd[h].st \in {"cleared", "dropped"} =>
              OpsOf(h) = <<"alloc", "init", "clear", "dealloc">>
        /\ hnd[h].st = "crashed" => OpsOf(h) = <<"alloc", "init", "clear">>
        /\ hnd[h].st = "failed" => Count(OpsOf(h), "clear") = 0

\* one handle was torn down by Handle::clear, another by an implicit drop
C2_Witness ==
    \E h1, h2 \in HandleIds : hnd[h1].st = "cleared" /\ hnd[h2].st = "dropped"

LiveListener(l) == lst[l].st = "live"

\* C3: a hook node that is linked into the list is allocated, and so are its
\* event table and its callback bundle, at the addresses register() handed
\* to the native add-listener call; they are the boxes the Listener owns.
C3_LinkedImpliesAllocated ==
    LET fwd == Forward(mem)
    IN  /\ ~mem.ub
        /\ \A i \in 1 .. Len(fwd) :
              /\ fwd[i] # BAD
              /\ \E l \in ListenerIds :
                    /\ LiveListener(l)
                    /\ lst[l].reg.node = fwd[i]
                    /\ lst[l].listener = fwd[i]
                    /\ mem.hooks[fwd[i]].funcs = lst[l].reg.funcs
                    /\ mem.hooks[fwd[i]].data = lst[l].reg.data
                    /\ lst[l].events = lst[l].reg.funcs
                    /\ lst[l].data = lst[l].reg.data
                    /\ {lst[l].listener, lst[l].events, lst[l].data} \subseteq mem.live
                    /\ tables[lst[l].events] = EventsTable(lst[l].kind, lst[l].cbs)
                    /\ bundles[lst[l].data] = lst[l].cbs

\* two subscriptions are linked after a third one was unregistered
C3_Witness ==
    /\ Len(Forward(mem)) >= 2
    /\ \E l \in ListenerIds : lst[l].st = "dropped"

IsFree(o) == o.op = "free"

\* C4: unregistering a Listener (drop or Listener::unregister) unlinks the
\* hook node first, then calls the `removed` finalizer iff it is set, and
\* frees the event table, the node and the bundle only after both.
C4_UnlinkFinalizeThenFree ==
    \A l \in ListenerIds :
        lst[l].st = "dropped" =>
            LET ops == lst[l].ops
                k == IF lst[l].removed # NULL THEN 2 ELSE 1
            IN  /\ Len(ops) = k + 3
                /\ ops[1] = Op("unlink", lst[l].listener)
                /\ lst[l].removed # NULL => ops[2].op = "removed"
                /\ \A i \in 1 .. Len(ops) : IsFree(ops[i]) <=> i > k
                /\ {ops[i].arg : i \in k + 1 .. Len(ops)}
                      = {lst[l].events, lst[l].listener, lst[l].data}

\* one listener with a finalizer was consumed by Listener::unregister, one
\* without a finalizer was dropped
C4_Witness ==
    \E l1, l2 \in ListenerIds :
        /\ lst[l1].st = "dropped" /\ lst[l1].via = "unregister"
        /\ lst[l1].removed # NULL
        /\ lst[l2].st = "dropped" /\ lst[l2].via = "drop"
        /\ lst[l2].removed = NULL

\* the listeners still registered, in the order they were registered
LiveIds == SelectSeq([i \in ListenerIds |-> i], LiveListener)
LiveNodes == [i \in 1 .. Len(LiveIds) |-> lst[LiveIds[i]].listener]
WithCallback(cb) ==
    LET Has(l) == LiveListener(l) /\ cb \in lst[l].cbs
    IN  SelectSeq([i \in ListenerIds |-> i], Has)

\* the listeners registered in world w, in the order they were registered,
\* and their hook nodes
LiveIdsIn(w) ==
    LET Live(l) == w.lst[l].st = "live"
    IN  SelectSeq([i \in ListenerIds |-> i], Live)
LiveNodesIn(w) ==
    LET ids == LiveIdsIn(w)
    IN  [i \in 1 .. Len(ids) |-> w.lst[ids[i]].listener]

\* C5: after any unregistrations the list holds exactly the remaining
\* subscriptions in their order of registration, with consistent prev / next
\* links, and so it does after an event whose closures unregister or
\* register subscriptions while it is delivered; an event of any category
\* calls the closures in the order of registration, each at most once,
\* reaches every subscription that has a callback for it and remains
\* registered, and calls no closure of a subscription unregistered before.
C5_UnlinkKeepsOthers ==
    /\ Forward(mem) = LiveNodes
    /\ Backward(mem) = Reverse(LiveNodes)
    /\ \A slot \in Slots(tkind) :
          LET r == DispatchAll(World, slot, PlainPayload(tkind, slot))
          IN  /\ ~r.ub
              /\ r.pan = NULL
              /\ Forward(r.w.mem) = LiveNodesIn(r.w)
              /\ Backward(r.w.mem) = Reverse(LiveNodesIn(r.w))
              /\ \A i \in 1 .. Len(r.inv) :
                    /\ r.inv[i].cb = slot
                    /\ \E l \in ListenerIds :
                          /\ r.w.lst[l].data = r.inv[i].data
                          /\ slot \in r.w.lst[l].cbs
                          /\ lst[l].st # "dropped"
                    /\ \A k \in 1 .. Len(r.inv) : i < k => r.inv[i].data < r.inv[k].data
              /\ \A l \in ListenerIds :
                    r.w.lst[l].st = "live" /\ slot \in r.w.lst[l].cbs =>
                        \E i \in 1 .. Len(r.inv) : r.inv[i].data = r.w.lst[l].data

\* the middle one of three subscriptions was unregistered, the outer two
\* remain and both have a callback, and a closure of one of them
\* unregisters a subscription when it is called
C5_Witness ==
    \E a, b, c \in ListenerIds :
        /\ a < b /\ b < c
        /\ LiveListener(a) /\ lst[b].st = "dropped" /\ LiveListener(c)
        /\ lst[a].cbs # {} /\ lst[c].cbs # {}
        /\ lst[a].act = RemoveAct \/ lst[c].act = DropAct(a)

\* C6: after register(), for every listener kind and every set of supplied
\* callbacks, a slot of the native event table is non-null iff the callback of
\* that category was supplied; the version field is always set.
C6_SlotsMatchCallbacks ==
    \A l \in ListenerIds :
        LiveListener(l) =>
            LET t == tables[lst[l].reg.funcs]
            IN  /\ DOMAIN t = Slots(lst[l].kind) \cup {"version"}
                /\ t["version"] # NULL
                /\ \A slot \in Slots(lst[l].kind) :
                      t[slot] # NULL <=> slot \in lst[l].cbs

\* a proxy listener registered with some, but not all, callbacks
C6_Witness ==
    /\ tkind = "proxy"
    /\ LiveListener(1)
    /\ lst[1].cbs # {}
    /\ lst[1].cbs # Slots("proxy")

\* C7: with a dispatcher that calls only non-null slots, no trampoline runs
\* and finds its callback absent, and an event of a category without callback
\* invokes nothing.
C7_NoAbsentCallback ==
    /\ panicked # "unwrap"
    /\ \A i \in 1 .. Len(delivered) :
          \E l \in ListenerIds :
              lst[l].reg.node = delivered[i].node /\ delivered[i].slot \in lst[l].cbs
    /\ \A i \in 1 .. Len(invoked) : invoked[i].cb \in bundles[invoked[i].data]

\* an event of a category without callback was emitted and nothing ran
C7_Witness ==
    /\ skipped > 0
    /\ LiveListener(1)
    /\ lst[1].cbs # {}
    /\ delivered = <<>>
    /\ invoked = <<>>
    /\ panicked = NULL

\* the payloads the trampolines accept: the string argument is UTF-8 and the
\* permission bits are among R, W, X, M
ValidPayload(p) ==
    /\ Utf8ValidFrom(p.str.tail, 1)
    /\ BitAnd32(p.perm, BitNot32(PermAll)) = 0

\* what the closure of a category is to be called with
ExpectedArgs(slot, p) ==
    IF slot = "global" THEN Args(p.nums, NoStr, p.perm, ObjectType_from_str(p.str))
    ELSE IF slot = "error" THEN Args(p.nums, p.str, 0, NoType)
    ELSE Args(p.nums, NoStr, 0, NoType)

DataOf(node) == lst[CHOOSE l \in ListenerIds : lst[l].reg.node = node].reg.data

\* C8, as claimed: every native invocation of a populated slot, whatever the
\* payload, invokes the closure of that category exactly once, in order.
C8_EveryDeliveryInvokes ==
    /\ Len(invoked) = Len(delivered)
    /\ \A i \in 1 .. Len(delivered) : invoked[i].cb = delivered[i].slot

\* C8, amended: every native invocation of a populated slot whose string
\* argument is valid UTF-8 and whose permission bits are among R, W, X, M
\* invokes the closure of that category exactly once with the delivered
\* arguments, in the order of the deliveries; for any other payload the
\* trampoline panics without calling the closure.
C8_ValidDeliveryInvokes ==
    /\ Len(invoked) <= Len(delivered)
    /\ \A i \in 1 .. Len(delivered) :
          LET d == delivered[i]
          IN  IF ValidPayload(d.p)
              THEN /\ i <= Len(invoked)
                   /\ invoked[i] = [data |-> DataOf(d.node), cb |-> d.slot,
                                    args |-> ExpectedArgs(d.slot, d.p)]
              ELSE /\ i = Len(delivered)
                   /\ Len(invoked) = i - 1
                   /\ panicked \in {"utf8", "permissions"}
    /\ Len(invoked) = Len(delivered) => panicked = NULL

\* two deliveries with different arguments reached the closures in order
C8_Witness ==
    /\ Len(invoked) = 2
    /\ Len(delivered) = 2
    /\ invoked[1].args # invoked[2].args
    /\ panicked = NULL

\* C9: pw_proxy_destroy is called exactly once for every proxy obtained, when
\* the value owning it is dropped: never twice, never before, and not because
\* the remote `removed` event was received.
C9_DestroyExactlyOnce ==
    \A p \in ProxyIds :
        /\ proxies[p].destroys <= 1
        /\ proxies[p].st = "dropped" <=> proxies[p].destroys = 1
        /\ proxies[p].st \in {"wrapper", "proxy"} /\ proxies[p].removed =>
              proxies[p].destroys = 0

\* one proxy was upcast, saw `removed` and was dropped; another one was
\* upcast, wrapped again, saw `removed` and is still owned
C9_Witness ==
    \E p, q \in 1 .. MaxProxies :
        /\ proxies[p].st = "dropped" /\ proxies[p].up /\ proxies[p].removed
        /\ proxies[p].destroys = 1
        /\ proxies[q].st = "wrapper" /\ proxies[q].up /\ proxies[q].removed

\* C10: Registry::bind returns the wrong-type error whenever the requested
\* and the advertised type differ, without panicking and without leaving a
\* native proxy behind; when they are equal it returns the out-of-memory
\* error for a null proxy and otherwise a wrapper owning the returned proxy.
C10_BindChecksType ==
    /\ \A p \in ProxyIds : proxies[p].st # "leaked"
    /\ bindResult.tag # "none" =>
          /\ bindResult.tag # "panic"
          /\ bindResult.adv # Known(bindResult.T) =>
                /\ bindResult.tag = "WrongProxyType"
                /\ bindResult.native = REGISTRY
          /\ bindResult.adv = Known(bindResult.T) =>
                IF bindResult.nat = REGISTRY
                THEN bindResult.tag = "NoMemory"
                ELSE /\ bindResult.tag = "ok"
                     /\ bindResult.wrapper = [type |-> bindResult.T,
                                              proxy |-> bindResult.nat]

\* a bind of a wrapper type to a global of an unknown type was refused
C10_Witness ==
    /\ bindResult.tag = "WrongProxyType"
    /\ bindResult.adv.v = "Other"

\* the three classifications of a raw value
Classes(r) ==
    (IF is_ok(r) THEN {"ok"} ELSE {}) \cup (IF is_async(r) THEN {"async"} ELSE {})
    \cup (IF is_err(r) THEN {"err"} ELSE {})

InValRange(x) == 0 <= x /\ x <= SPA_VAL_MASK

Returned(op, tag, val) == sout = [op |-> op, tag |-> tag, val |-> val]

\* C11: for v in [0, 2^30-1] new_ok(v) has raw value v, is classified only
\* as ok and unwrap_ok returns v; for s in [0, 2^30-1] new_async(s) has raw
\* value s + 2^30, is classified only as async and unwrap_async returns s;
\* for c in [1, 2^31-1] new_err(c) has raw value -c, is classified only as
\* error and unwrap_error carries the code c.
C11_EncodeDecodeRoundTrip ==
    /\ sres.ctor = "new_ok" /\ InValRange(sres.arg) =>
          /\ sres.tag = "value" /\ sres.raw = sres.arg
          /\ Classes(sres.raw) = {"ok"}
          /\ sout.op = "unwrap_ok" => Returned("unwrap_ok", "ok", sres.arg)
    /\ sres.ctor = "new_async" /\ InValRange(sres.arg) =>
          /\ sres.tag = "value" /\ sres.raw = sres.arg + SPA_ASYNC_BIT
          /\ Classes(sres.raw) = {"async"}
          /\ sout.op = "unwrap_async" => Returned("unwrap_async", "ok", sres.arg)
    /\ sres.ctor = "new_err" /\ sres.arg >= 1 =>
          /\ sres.tag = "value" /\ sres.raw = -sres.arg
          /\ Classes(sres.raw) = {"err"}
          /\ sout.op = "unwrap_error" => Returned("unwrap_error", "err", sres.arg)

\* the largest sequence number went through new_async and unwrap_async
C11_Witness ==
    /\ sres.ctor = "new_async"
    /\ sres.arg = SPA_VAL_MASK
    /\ Returned("unwrap_async", "ok", SPA_VAL_MASK)

\* C12: new_ok and new_async panic for every input outside [0, 2^30-1],
\* new_err panics for every input that is zero or negative, and none of the
\* three returns a value of another category than the one requested.
C12_ConstructorsFailFast ==
    /\ sres.ctor \in {"new_ok", "new_async"} /\ ~InValRange(sres.arg) =>
          sres.tag = "panic"
    /\ sres.ctor = "new_err" /\ sres.arg <= 0 => sres.tag = "panic"
    /\ sres.tag = "value" =>
          /\ sres.ctor = "new_ok" => Classes(sres.raw) = {"ok"}
          /\ sres.ctor = "new_async" => Classes(sres.raw) = {"async"}
          /\ sres.ctor = "new_err" => Classes(sres.raw) = {"err"}

\* new_err was called with zero and panicked
C12_Witness ==
    /\ sres.ctor = "new_err"
    /\ sres.arg = 0
    /\ sres.tag = "panic"

\* bit 30 of the two's complement pattern of an i32
Bit30(r) == (Low31(r) \div SPA_ASYNC_BIT) % 2 = 1

\* C13: for every raw value r exactly one of is_ok, is_async and is_err holds
\* of from_raw(r): is_err iff r < 0, is_async iff r >= 0 with bit 30 set,
\* is_ok iff r >= 0 with bit 30 clear; into_raw returns r unchanged.
C13_ExactlyOneCategory ==
    sres.ctor = "from_raw" =>
        /\ sres.tag = "value"
        /\ Cardinality(Classes(sres.raw)) = 1
        /\ is_err(sres.raw) <=> sres.arg < 0
        /\ is_async(sres.raw) <=> sres.arg >= 0 /\ Bit30(sres.arg)
        /\ is_ok(sres.raw) <=> sres.arg >= 0 /\ ~Bit30(sres.arg)
        /\ sout.op = "into_raw" => Returned("into_raw", "ok", sres.arg)

\* a negative raw value with bit 30 set went through from_raw and into_raw
C13_Witness ==
    /\ sres.ctor = "from_raw"
    /\ sres.arg = -SPA_ASYNC_BIT
    /\ sout.op = "into_raw"

\* the error code -r of a negative raw value r
IsCodeOf(code, r) == code > 0 /\ code - 1 = -(r + 1)

\* C14: into_sync_result panics iff the value is async and otherwise returns
\* Ok(r) for a sync success r and Err(code -r) for a negative r;
\* into_async_result panics iff the value is a sync success and otherwise
\* returns Ok(r with bit 30 masked off) for an async r and Err(code -r) for a
\* negative r.
C14_ConversionsFailOnOpposite ==
    /\ sout.op = "into_sync_result" =>
          IF is_async(sres.raw) THEN sout.tag = "panic"
          ELSE IF sres.raw >= 0 THEN sout.tag = "ok" /\ sout.val = sres.raw
          ELSE sout.tag = "err" /\ IsCodeOf(sout.val, sres.raw)
    /\ sout.op = "into_async_result" =>
          IF is_ok(sres.raw) THEN sout.tag = "panic"
          ELSE IF sres.raw >= 0
          THEN sout.tag = "ok" /\ sout.val = sres.raw - SPA_ASYNC_BIT
          ELSE sout.tag = "err" /\ IsCodeOf(sout.val, sres.raw)

IsPrefix(q, r) == Len(q) <= Len(r) /\ \A i \in 1 .. Len(q) : q[i] = r[i]

\* what the iterator in use is to yield in all, given what a complete run
\* of it is to yield: a prefix so far, and all of it once None was returned
YieldsExactly(kind, all) ==
    it.kind = kind =>
        /\ IsPrefix(yielded, all)
        /\ nones > 0 => yielded = all

Valid(c) == Utf8ValidFrom(c.tail, 1)
BothValid(e) == Valid(e.key) /\ Valid(e.value)
KeyValid(e) == Valid(e.key)
ValueValid(e) == Valid(e.value)
PairsOf(q) == [i \in 1 .. Len(q) |-> <<q[i].key, q[i].value>>]
KeysOf(q) == [i \in 1 .. Len(q) |-> q[i].key]
ValuesOf(q) == [i \in 1 .. Len(q) |-> q[i].value]

\* C15: for a dict backed by n pairs (n = 0 with a null items pointer
\* included) iter_cstr yields exactly those n pairs in the order of the
\* backing array, whatever the flags word, and then None on every further
\* call; len() is n and is_empty() is true iff n = 0.
C15_IterCstrYieldsAll ==
    /\ YieldsExactly("cstr", PairsOf(dict.arr))
    /\ dres.op = "len" => dres.val = Len(dict.arr)
    /\ dres.op = "is_empty" => (dres.val <=> dict.arr = <<>>)

\* a dict flagged SORTED whose two keys are not in order was iterated to the
\* end and asked for more
C15_Witness ==
    /\ dict.flags = 1
    /\ dict.arr = <<Item(K1, V0), Item(K0, V0)>>
    /\ it.kind = "cstr"
    /\ Len(yielded) = 2
    /\ nones = MaxNones

\* C16: iter() yields exactly the subsequence of the raw pairs whose key and
\* value are both valid UTF-8, in the order of the backing array; when all
\* entries are valid it yields the pairs of iter_cstr in the same order.
C16_IterYieldsValidPairs ==
    /\ YieldsExactly("iter", PairsOf(SelectSeq(dict.arr, BothValid)))
    /\ (\A i \in 1 .. Len(dict.arr) : BothValid(dict.arr[i])) =>
          YieldsExactly("iter", PairsOf(dict.arr))

\* iter() skipped an entry with an invalid value, yielded the next entry and
\* skipped one with an invalid key
C16_Witness ==
    /\ dict.arr = <<Item(K0, VBad), Item(K1, V0), Item(KBad, V0)>>
    /\ it.kind = "iter"
    /\ yielded = <<<<K1, V0>>>>
    /\ nones = 1

\* the entries get(key) can return: the key is equal and key and value are
\* valid UTF-8
Hits(key) == {i \in 1 .. Len(dict.arr) : dict.arr[i].key = key /\ BothValid(dict.arr[i])}
First(S) == CHOOSE i \in S : \A j \in S : i <= j

\* C17: get(key) returns the value of the first entry, in the order of the
\* backing array, whose key equals `key` and whose key and value are both
\* valid UTF-8, also when later entries repeat the key; None when there is no
\* such entry.
C17_GetFirstValidMatch ==
    dres.op = "get" =>
        IF Hits(dres.arg) = {} THEN dres.val = None
        ELSE dres.val = Some(dict.arr[First(Hits(dres.arg))].value)

\* the key is stored twice with different values and get returned the first
C17_Witness ==
    /\ dict.arr = <<Item(K1, V0), Item(K0, V1), Item(K0, V0)>>
    /\ dres.op = "get"
    /\ dres.arg = K0
    /\ dres.val = Some(V1)

RawHits(key) == {i \in 1 .. Len(dict.arr) : dict.arr[i].key = key}

\* C18, as claimed: get(key) is None whenever the dict does not contain the
\* key or the first entry with the key has a value that is not valid UTF-8,
\* also when a later entry repeats the key with a valid value.
C18_NoneOnInvalidFirstValue ==
    /\ dres.op = "get"
    /\ RawHits(dres.arg) = {} \/ ~ValueValid(dict.arr[First(RawHits(dres.arg))])
    => dres.val = None

\* C18, amended: get(key) is None exactly when no entry with the key has a
\* value that is valid UTF-8; an entry with the key whose value is not valid
\* is skipped, and a later entry that repeats the key with a valid value is
\* returned.
C18_NoneIffNoValidValue ==
    dres.op = "get" =>
        /\ dres.val = None <=>
              \A i \in RawHits(dres.arg) : ~ValueValid(dict.arr[i])
        /\ \A i \in RawHits(dres.arg) :
              (/\ ValueValid(dict.arr[i])
               /\ \A j \in RawHits(dres.arg) : j < i => ~ValueValid(dict.arr[j]))
              => dres.val = Some(dict.arr[i].value)

\* the first entry with the key has an invalid value, a later one a valid
\* value, and get returned the later one
C18_Witness ==
    /\ dict.arr = <<Item(K0, VBad), Item(K0, V1)>>
    /\ dres.op = "get"
    /\ dres.arg = K0
    /\ dres.val = Some(V1)

\* C19: at every point of an iteration over n pairs CIter::size_hint returns
\* (r, Some(r)) with r the number of pairs not yet yielded.
C19_SizeHintExact ==
    it.kind = "cstr" /\ hint # NoHint =>
        LET r == Len(dict.arr) - Len(yielded)
        IN  hint = <<Usize(r, 0, 0, 0), Some(Usize(r, 0, 0, 0))>>

\* C20: keys() yields, in the order of the backing array, the key of every
\* entry whose key is valid UTF-8 whatever its value is, and values() the
\* value of every entry whose value is valid whatever its key is; when all
\* entries are valid they are the components of the pairs of iter().
C20_KeysValuesProject ==
    /\ YieldsExactly("keys", KeysOf(SelectSeq(dict.arr, KeyValid)))
    /\ YieldsExactly("values", ValuesOf(SelectSeq(dict.arr, ValueValid)))
    /\ (\A i \in 1 .. Len(dict.arr) : BothValid(dict.arr[i])) =>
          LET pairs == PairsOf(SelectSeq(dict.arr, BothValid))
          IN  /\ YieldsExactly("keys", [i \in 1 .. Len(pairs) |-> pairs[i][1]])
              /\ YieldsExactly("values", [i \in 1 .. Len(pairs) |-> pairs[i][2]])

\* keys() yielded the key of an entry whose value is not valid UTF-8 and
\* skipped an entry whose key is not
C20_Witness ==
    /\ dict.arr = <<Item(K0, VBad), Item(KBad, V0)>>
    /\ it.kind = "keys"
    /\ yielded = <<K0>>
    /\ nones > 0

----------------------------------------------------------------------------
(* Error codes at the ends of the i32 range *)

ErrorConversions == {"unwrap_error", "into_sync_result", "into_async_result"}

\* C27: for every negative 32-bit raw value r, r = -2^31 included,
\* unwrap_error, into_sync_result and into_async_result report the error code
\* -r as a positive integer, and the negation does not overflow.
C27_NegationNeverOverflows ==
    sout.op \in ErrorConversions /\ sres.raw < 0 =>
        /\ sout.tag = "err"
        /\ IsCodeOf(sout.val, sres.raw)

----------------------------------------------------------------------------
(* The hook node the finalizer sees *)

\* C29: when a Listener is unregistered and its node carries a `removed`
\* finalizer, the finalizer is called with the address of the node that was
\* registered with the native add-listener call, not with that of a copy.
C29_FinalizerGetsRegisteredNode ==
    \A l \in ListenerIds :
        lst[l].st = "dropped" /\ lst[l].removed # NULL =>
            \E i \in 1 .. Len(lst[l].ops) :
                lst[l].ops[i] = Op("removed", lst[l].reg.node)

----------------------------------------------------------------------------
(* Handle: error reporting, failed init, zero size, the release layout *)

SizesOf(h, op) == {hnd[h].log[i].size : i \in {j \in 1 .. Len(hnd[h].log) : hnd[h].log[j].op = op}}
Released(h) == Count(OpsOf(h), "dealloc") = 1

\* C21: Handle::clear returns an error carrying the native code iff the
\* native clear returned a negative value, and the block is released in both
\* outcomes; an implicit drop releases the block and reports nothing,
\* whatever the native clear returned, and the process does not die in it.
C21_ClearReportsDropSilent ==
    \A h \in HandleIds :
        /\ hnd[h].st = "cleared" =>
              /\ hnd[h].ret = "err" <=> hnd[h].raw < 0
              /\ hnd[h].ret = "err" =>
                    IsCodeOf(hnd[h].code, hnd[h].raw) \/ hnd[h].code = hnd[h].raw
              /\ hnd[h].ret \in {"ok", "err"}
              /\ Released(h)
        /\ hnd[h].st = "dropped" => Released(h) /\ hnd[h].ret = NULL
        /\ hnd[h].st # "crashed"

\* C22: when the native init reports an error (a negative value),
\* instantiate has released the block it allocated, with the layout it was
\* allocated with, before it signals the failure; no Handle exists, the
\* native clear was not called on the block, and the library's reference
\* count is what the Plugin and the live Handles account for.
C22_InitErrorReleasesBlock ==
    /\ \A h \in HandleIds :
          hnd[h].st = "failed" /\ hnd[h].init < 0 =>
              /\ hnd[h].ret = "panic"
              /\ OpsOf(h) = <<"alloc", "init", "dealloc">>
              /\ SizesOf(h, "dealloc") = SizesOf(h, "alloc")
    /\ libRc = (IF plugin = "open" THEN 1 ELSE 0)
                + Cardinality({h \in HandleIds : hnd[h].st = "live"})

\* C23: with get_size reporting 0, instantiate passes no zero-size request
\* to the allocator, init runs on a valid block, and the teardown succeeds.
C23_ZeroSizeInstantiate ==
    \A h \in HandleIds :
        /\ 0 \notin SizesOf(h, "alloc")
        /\ hnd[h].st # "faulted"

\* C30: the size with which a Handle's block is released equals the size
\* with which instantiate allocated it, whatever get_size returns across its
\* calls (the alignment is align_of::<max_align_t>() on both sides).
C30_ReleaseLayoutIsAllocLayout ==
    \A h \in HandleIds :
        Released(h) => SizesOf(h, "dealloc") = SizesOf(h, "alloc")

----------------------------------------------------------------------------
(* Listeners and the life of their target object *)

\* C28: in every order in which a target object (Proxy, Node, Port, Link,
\* Registry) and the Listeners registered on it are dropped, a Listener is
\* unlinked while its target object is still alive, and its unlinking makes
\* no access through prev / next into the hook list of a destroyed object.
C28_UnlinkedWhileTargetAlive ==
    /\ ~mem.ub
    /\ \A l \in ListenerIds : lst[l].st = "dropped" => ~lst[l].orphan

----------------------------------------------------------------------------
(* ObjectType and its type names *)

\* C26: to_str(from_str(s)) = s for every type-name string s; from_str maps
\* each of the 18 known names PipeWire:Interface:<X> to its variant X and
\* every other string to Other(s); client_version gives the bound client
\* version of a known variant and panics for Other.
C26_TypeNameRoundTrip ==
    ty.st = "typed" =>
        /\ \A x \in KnownTypes : ty.s = TypeName(x) => ty.t = Known(x)
        /\ (\A x \in KnownTypes : ty.s # TypeName(x)) => ty.t = Other(ty.s)
        /\ ty.back.done => ty.back.s = ty.s
        /\ ty.cv.done =>
              IF ty.t.v = "Other" THEN ty.cv.panic
              ELSE ~ty.cv.panic /\ ty.cv.version = <<"PW_VERSION", ty.t.v>>

\* both a known and an unknown name were converted; shown for the unknown
\* one: the name came back and client_version panicked
C26_Witness ==
    /\ Cardinality(KnownTypes) = 18
    /\ ty.st = "typed" /\ ty.s = TypeName("Badger")
    /\ ty.back.done /\ ty.back.s = TypeName("Badger")
    /\ ty.cv.done /\ ty.cv.panic

----------------------------------------------------------------------------
(* Handle::interface *)

SyncSuccess(r) == r >= 0 /\ ~is_async(r)
NulTerminated(bytes) == Len(bytes) > 0 /\ bytes[Len(bytes)] = 0

\* C25: interface::<T>() returns a typed view iff the native get_interface
\* succeeds and the version in the returned header equals T::VERSION; it
\* returns None when the native side reports ENOTSUP and when the version
\* differs; it does not return when the native side reports another error
\* or when T::NAME is not NUL-terminated.
C25_InterfaceViewIffVersion ==
    ifc.st = "called" =>
        /\ from_bytes_with_nul(ifc.T.NAME) =>
              /\ ifc.out = "some" <=>
                    SyncSuccess(ifc.ret) /\ ifc.version = ifc.T.VERSION
              /\ ifc.ret = -ENOTSUP => ifc.out = "none"
              /\ SyncSuccess(ifc.ret) /\ ifc.version # ifc.T.VERSION => ifc.out = "none"
              /\ ifc.ret < 0 /\ ifc.ret # -ENOTSUP => ifc.out = "panic"
        /\ ~NulTerminated(ifc.T.NAME) => ifc.out = "panic"
        /\ ifc.out = "some" => from_bytes_with_nul(ifc.T.NAME)

\* a view was returned for a success with the right version
C25_Witness ==
    /\ ifc.st = "called" /\ ifc.out = "some"
    /\ ifc.ret = 0 /\ ifc.version = ifc.T.VERSION /\ ifc.version = 1

----------------------------------------------------------------------------
(* Factory enumeration *)

\* a module with k factories: every entry is handed out with a positive
\* return value that is a sync success
WellBehaved(mod) ==
    \A i \in 1 .. Len(mod) : mod[i].ret > 0 /\ mod[i].ret < SPA_ASYNC_BIT

FactoriesOf(mod) == [i \in 1 .. Len(mod) |-> mod[i].name]
YieldedBy(log) ==
    LET some == {k \in 1 .. Len(log) : log[k].tag = "some"}
        RECURSIVE upto(_)
        upto(k) == IF k = 0 THEN <<>>
                   ELSE upto(k - 1) \o (IF k \in some THEN <<log[k].factory>> ELSE <<>>)
    IN  upto(Len(log))
Matches(mod, name) == {i \in 1 .. Len(mod) : Factory_name(mod[i].name) = name}

\* each factories() starts at index 0 and every next() passes the cursor
\* as the entry point left it
CursorThreaded ==
    \A k \in 1 .. Len(fac.log) :
        fac.log[k].at = (IF k = 1 THEN 0 ELSE fac.log[k - 1].left)

\* for a module with k factories the sequence is those k factories in
\* order, and factory(name) is the first whose name equals name, or None
ExactlyTheFactories ==
    WellBehaved(fac.module) =>
        /\ IsPrefix(YieldedBy(fac.log), FactoriesOf(fac.module))
        /\ NonesIn(fac.log) > 0 =>
              /\ YieldedBy(fac.log) = FactoriesOf(fac.module)
              /\ \A k \in 1 .. Len(fac.log) :
                    fac.log[k].tag = "none" <=> k > Len(fac.module)
        /\ fac.found.done =>
              LET hits == Matches(fac.module, fac.found.name)
              IN  IF hits = {} THEN fac.found.tag = "none"
                  ELSE /\ fac.found.tag = "some"
                       /\ fac.found.pos = CHOOSE i \in hits : \A j \in hits : i <= j
                       /\ fac.found.factory = fac.module[fac.found.pos].name

\* C24 as stated: next() yields one Factory for a positive return value,
\* ends the sequence at a return value 0 and panics on a negative one; the
\* cursor is threaded from 0; a module with k factories yields exactly those.
C24_EnumerationAsStated ==
    fac.st # "none" =>
        /\ CursorThreaded
        /\ \A k \in 1 .. Len(fac.log) :
              LET e == fac.log[k]
              IN  /\ e.ret > 0 => e.tag = "some" /\ e.factory = fac.module[e.at + 1].name
                  /\ e.ret = 0 => e.tag = "none"
                  /\ e.ret < 0 => e.tag = "panic"
        /\ ExactlyTheFactories

\* C24: next() yields one Factory for a positive return value below 2^30,
\* ends the sequence at a return value 0 and panics on a negative return
\* value and on one with bit 30 set; each factories() starts at index 0 and
\* the cursor is passed on as the entry point left it; a module with k
\* factories yields exactly those k in order, and factory(name) returns the
\* first of them whose name equals name, or None.
C24_EnumerationSyncOnly ==
    fac.st # "none" =>
        /\ CursorThreaded
        /\ \A k \in 1 .. Len(fac.log) :
              LET e == fac.log[k]
              IN  /\ e.ret > 0 /\ e.ret < SPA_ASYNC_BIT =>
                        e.tag = "some" /\ e.factory = fac.module[e.at + 1].name
                  /\ e.ret = 0 => e.tag = "none"
                  /\ e.ret < 0 \/ e.ret >= SPA_ASYNC_BIT => e.tag = "panic"
        /\ ExactlyTheFactories

\* the second enumeration of a module with two differently named factories
\* ran to its end, and factory() found the second one
C24_Witness ==
    /\ fac.st = "open" /\ WellBehaved(fac.module) /\ Len(fac.module) = 2
    /\ fac.module[1].name # fac.module[2].name
    /\ fac.enums = 2
    /\ Len(fac.log) = 3 /\ fac.log[3].tag = "none" /\ fac.log[2].tag = "some"
    /\ fac.found.done /\ fac.found.tag = "some" /\ fac.found.pos = 2
====
